---- MODULE Spec2Model ----
(***************************************************************************)
(* notizia: actor-style task runtime.                                      *)
(*                                                                         *)
(* The model covers the Mailbox (take / await / put-back receive), the     *)
(* unbounded message channel it wraps, the lifecycle driver generated by   *)
(* #[derive(Task)] (__setup / run) and the TaskHandle operations           *)
(* (send, this, join, kill, shutdown) and the call! macro.                 *)
(*                                                                         *)
(* Four specifications share the variables:                                *)
(*   SpecMailbox  a Mailbox used on its own by concurrent callers          *)
(*   Spec         one task spawned with run() and driven through its       *)
(*                TaskHandle                                               *)
(*   SpecOrder    a receiving task fed by its handle and its TaskRefs      *)
(*   SpecCall     call! against a responder task                           *)
(***************************************************************************)
EXTENDS Integers, Sequences, FiniteSets, TLC

\* ------------------------------------------------------------------ bounds
MaxQueue == 2
MaxSenders == 2
MaxRefs == 2
MaxHookSleeps == 1
MaxPerSender == 2
MaxSendingRefs == 1
\* MaxRefs bounds the TaskRefs alive at once (2: one from this(), one clone);
\* MaxSendingRefs bounds those of them that send numbered values in SpecOrder

\* ------------------------------------------------------------- constants
Callers == {1, 2}
Chans == {1, 2}
Msgs == {"DoWork", "Stop"}
NoRx == 0
NoOne == 0
TaskCaller == 1
TaskChan == 1
HandleSender == 0
SenderIds == 0..MaxSendingRefs
Calls == {1, 2}
NoCall == 0
Replies == {"3", "42"}
NoVal == ""

VARIABLES
    receiver,      \* Mailbox.receiver: the Option inside the Mutex (NoRx = None)
    lockHolder,    \* who holds the Mutex of Mailbox.receiver (NoOne = free)
    queue,         \* queue[ch]: messages buffered in channel ch
    senders,       \* senders[ch]: live UnboundedSender clones of channel ch
    rxAlive,       \* rxAlive[ch]: the UnboundedReceiver of ch exists
    bound,         \* bound[ch]: the receiver of ch was moved into set_receiver
    pc,            \* pc[p]: position of caller p inside recv / set_receiver
    held,          \* held[p]: local `receiver` of recv (NoRx = none)
    val,           \* val[p]: local `value` of recv
    arg,           \* arg[p]: the receiver argument of set_receiver
    result,        \* result[p]: what the last recv of p returned
    binds,         \* number of completed set_receiver calls
    closedSeen,    \* a recv has returned Closed
    raced,         \* a recv returned Poisoned while another recv held the endpoint
    sendResult,    \* what the last send returned
    tpc,           \* position of the task future (__setup)
    running,       \* the task future is being polled
    abortReq,      \* JoinHandle::abort was called
    startResult,   \* result of catch_unwind(start())
    reason,        \* the TerminateReason computed by __setup
    hookCalls,     \* number of times terminate() was invoked
    hookArg,       \* the reason terminate() was invoked with
    hookResult,    \* result of catch_unwind(terminate())
    hookSleeps,    \* suspensions of terminate() so far
    warning,       \* text of the warning logged for a panicking terminate()
    output,        \* the value the task future completed with
    hstate,        \* state of the TaskHandle
    hresult,       \* what join / shutdown returned
    refs,          \* live TaskRef clones made with this()
    calledIn,      \* tpc at the moment join / kill / shutdown was called
    sent,          \* sent[s]: values sender s has sent so far (0 = the handle)
    received,      \* the Vec the receiving task pushes every value to
    callPc,        \* callPc[c]: position of call c inside call!
    callResult,    \* callResult[c]: what call c returned
    slot,          \* slot[c]: the value sent on the reply channel of call c
    replyTo,       \* the reply sender the responder holds while it sleeps
    late,          \* late[c]: a reply was sent after call c had returned
    mbox           \* mbox[t]: the slot of the task-local Mailbox of task t

mvars == <<receiver, lockHolder, queue, senders, rxAlive, bound, pc, held,
           val, arg, result, binds, closedSeen, raced, sendResult>>
tvars == <<tpc, running, abortReq, startResult, reason, hookCalls, hookArg,
           hookResult, hookSleeps, warning, output, hstate, hresult, refs,
           calledIn>>
vars == <<receiver, lockHolder, queue, senders, rxAlive, bound, pc, held,
          val, arg, result, binds, closedSeen, raced, sendResult,
          tpc, running, abortReq, startResult, reason, hookCalls, hookArg,
          hookResult, hookSleeps, warning, output, hstate, hresult, refs,
          calledIn, sent, received, callPc, callResult, slot, replyTo, late,
          mbox>>
xvars == <<sent, received, callPc, callResult, slot, replyTo, late, mbox>>

\* ------------------------------------------------------------ value types
NoResult == [tag |-> "None", val |-> ""]
Ok(m) == [tag |-> "Ok", val |-> m]
Err(e) == [tag |-> "Err", val |-> e]

\* core/lifecycle.rs: TerminateReason
Normal == [tag |-> "Normal", msg |-> ""]
Panic(m) == [tag |-> "Panic", msg |-> m]
NoReason == [tag |-> "None", msg |-> ""]

\* Result<TerminateReason, _> as returned by join / shutdown
NoOutcome == [tag |-> "None", reason |-> NoReason, err |-> ""]
OkReason(r) == [tag |-> "Ok", reason |-> r, err |-> ""]
ErrOutcome(e) == [tag |-> "Err", reason |-> NoReason, err |-> e]

\* panic payloads: a &str, a String, or a value of any other type
Payloads == {[kind |-> "str", text |-> "boom"],
             [kind |-> "String", text |-> "X"],
             [kind |-> "other", text |-> "42"]}
NoPayload == [kind |-> "none", text |-> ""]
CatchOk == [tag |-> "Ok", payload |-> NoPayload]
CatchErr(p) == [tag |-> "Err", payload |-> p]
NoCatch == [tag |-> "None", payload |-> NoPayload]


\* ===================================================================
\* Channel primitives (tokio unbounded mpsc, as used by the repository)
\* ===================================================================

\* dropping an UnboundedReceiver: the channel is closed and what is still
\* buffered is discarded
DropRx_kept(alive, ch) == alive
DropRx(alive, ch) == IF ch = NoRx THEN alive ELSE [alive EXCEPT ![ch] = FALSE]
DropQueue_kept(q, ch) == q
DropQueue(q, ch) == IF ch = NoRx THEN q ELSE [q EXCEPT ![ch] = <<>>]

\* UnboundedReceiver::recv as polled once: a buffered message first, closure
\* only when the buffer is empty and no sender is left, otherwise pending
\* (ChannelRecv_owner would count the owner's senders only, not the clone
\* the task holds of its own sender)
ChannelRecv_eager(q, n) ==
    IF n = 0 THEN "closed" ELSE IF q /= <<>> THEN "msg" ELSE "pending"
ChannelRecv_open(q, n) == IF q /= <<>> THEN "msg" ELSE "pending"
ChannelRecv_owner(q, n) ==
    IF q /= <<>> THEN "msg" ELSE IF n <= 1 THEN "closed" ELSE "pending"
ChannelRecv(q, n) ==
    IF q /= <<>> THEN "msg" ELSE IF n = 0 THEN "closed" ELSE "pending"

\* the channel is a queue: send appends at the back, recv removes the front
Enqueue_twice(q, m) == Append(Append(q, m), m)
Enqueue_front(q, m) == <<m>> \o q
Enqueue(q, m) == Append(q, m)
Dequeue_keep(q) == q
Dequeue(q) == Tail(q)

\* UnboundedSender::send: enqueue, or hand the message back when the receiver
\* is gone
chan_send(ch, m) ==
    /\ senders[ch] > 0
    /\ IF rxAlive[ch]
       THEN /\ Len(queue[ch]) < MaxQueue
            /\ queue' = [queue EXCEPT ![ch] = Enqueue(@, m)]
            /\ sendResult' = Ok("")
       ELSE /\ queue' = queue
            /\ sendResult' = Err(m)
    /\ UNCHANGED <<receiver, lockHolder, senders, rxAlive, bound, pc, held,
                   val, arg, result, binds, closedSeen, raced>>

sender_clone(ch) ==
    /\ senders[ch] > 0
    /\ senders[ch] < MaxSenders
    /\ senders' = [senders EXCEPT ![ch] = @ + 1]
    /\ UNCHANGED <<receiver, lockHolder, queue, rxAlive, bound, pc, held,
                   val, arg, result, binds, closedSeen, raced, sendResult>>

sender_drop(ch) ==
    /\ senders[ch] > 0
    /\ senders' = [senders EXCEPT ![ch] = @ - 1]
    /\ UNCHANGED <<receiver, lockHolder, queue, rxAlive, bound, pc, held,
                   val, arg, result, binds, closedSeen, raced, sendResult>>

\* ===================================================================
\* Mailbox (core/mailbox.rs)
\* ===================================================================

\* the MutexGuard of the take block is dropped at the end of the block,
\* before receiver.recv() is awaited
LockAfterTake_held(p) == p
LockAfterTake(p) == NoOne

\* what recv leaves in its local `receiver` when the channel reports closure:
\* the `?` returns early and the local is dropped, nothing is put back
SlotAfterClosed(ch) == NoRx

\* the put-back of recv, line 66: the slot receives the local `receiver`
PutBack_lost(h) == NoRx
PutBack(h) == h

\* set_receiver, line 42: the slot is assigned whatever it held before
SlotAfterSet(old, new) == new

\* set_receiver, first half: self.receiver.lock().await
set_receiver_lock(p, ch) ==
    /\ pc[p] = "idle"
    /\ lockHolder = NoOne
    /\ rxAlive[ch]
    /\ ~bound[ch]
    /\ lockHolder' = p
    /\ arg' = [arg EXCEPT ![p] = ch]
    /\ bound' = [bound EXCEPT ![ch] = TRUE]
    /\ pc' = [pc EXCEPT ![p] = "set"]
    /\ UNCHANGED <<receiver, queue, senders, rxAlive, held, val, result,
                   binds, closedSeen, raced, sendResult>>

\* set_receiver, second half: *guard = Some(receiver); the previous content
\* of the slot is dropped, the guard is released
set_receiver_store(p) ==
    /\ pc[p] = "set"
    /\ lockHolder = p
    /\ receiver' = SlotAfterSet(receiver, arg[p])
    /\ rxAlive' = DropRx(rxAlive, receiver)
    /\ queue' = DropQueue(queue, receiver)
    /\ lockHolder' = NoOne
    /\ arg' = [arg EXCEPT ![p] = NoRx]
    /\ binds' = binds + 1
    /\ pc' = [pc EXCEPT ![p] = "idle"]
    /\ UNCHANGED <<senders, bound, held, val, result, closedSeen, raced,
                   sendResult>>

\* recv, line 58: self.receiver.lock().await
recv_lock(p) ==
    /\ pc[p] = "idle"
    /\ lockHolder = NoOne
    /\ lockHolder' = p
    /\ pc' = [pc EXCEPT ![p] = "take"]
    /\ UNCHANGED <<receiver, queue, senders, rxAlive, bound, held, val, arg,
                   result, binds, closedSeen, raced, sendResult>>

\* recv, line 59: the error for an empty slot
EmptySlotError_closed == "Closed"
EmptySlotError == "Poisoned"

\* recv, line 59: slot.take().ok_or(RecvError::Poisoned)?
recv_take(p) ==
    /\ pc[p] = "take"
    /\ lockHolder = p
    /\ IF receiver = NoRx
       THEN /\ result' = [result EXCEPT ![p] = Err(EmptySlotError)]
            /\ raced' = (raced \/ \E q \in Callers : held[q] /= NoRx)
            /\ pc' = [pc EXCEPT ![p] = "idle"]
            /\ lockHolder' = NoOne
            /\ UNCHANGED <<receiver, held>>
       ELSE /\ held' = [held EXCEPT ![p] = receiver]
            /\ receiver' = NoRx
            /\ lockHolder' = LockAfterTake(p)
            /\ pc' = [pc EXCEPT ![p] = "await"]
            /\ UNCHANGED <<result, raced>>
    /\ UNCHANGED <<queue, senders, rxAlive, bound, val, arg, binds,
                   closedSeen, sendResult>>

\* recv, line 63: receiver.recv().await.ok_or(RecvError::Closed)?
recv_await(p) ==
    /\ pc[p] = "await"
    /\ LET ch == held[p]
           r == ChannelRecv(queue[ch], senders[ch])
       IN /\ r /= "pending"
          /\ IF r = "msg"
             THEN /\ val' = [val EXCEPT ![p] = Head(queue[ch])]
                  /\ queue' = [queue EXCEPT ![ch] = Dequeue(@)]
                  /\ pc' = [pc EXCEPT ![p] = "relock"]
                  /\ UNCHANGED <<receiver, rxAlive, held, result, closedSeen>>
             ELSE /\ result' = [result EXCEPT ![p] = Err("Closed")]
                  /\ closedSeen' = TRUE
                  /\ held' = [held EXCEPT ![p] = NoRx]
                  /\ receiver' = IF SlotAfterClosed(ch) = NoRx
                                 THEN receiver ELSE SlotAfterClosed(ch)
                  /\ rxAlive' = IF SlotAfterClosed(ch) = NoRx
                                THEN DropRx(rxAlive, ch) ELSE rxAlive
                  /\ pc' = [pc EXCEPT ![p] = "idle"]
                  /\ UNCHANGED <<queue, val>>
    /\ UNCHANGED <<lockHolder, senders, bound, arg, binds, raced, sendResult>>

\* recv, line 66, first half: self.receiver.lock().await
recv_relock(p) ==
    /\ pc[p] = "relock"
    /\ lockHolder = NoOne
    /\ lockHolder' = p
    /\ pc' = [pc EXCEPT ![p] = "put"]
    /\ UNCHANGED <<receiver, queue, senders, rxAlive, bound, held, val, arg,
                   result, binds, closedSeen, raced, sendResult>>

\* recv, lines 66-68: *guard = Some(receiver); Ok(value)
recv_put(p) ==
    /\ pc[p] = "put"
    /\ lockHolder = p
    /\ receiver' = PutBack(held[p])
    /\ rxAlive' = DropRx(rxAlive, receiver)
    /\ queue' = DropQueue(queue, receiver)
    /\ held' = [held EXCEPT ![p] = NoRx]
    /\ lockHolder' = NoOne
    /\ result' = [result EXCEPT ![p] = Ok(val[p])]
    /\ val' = [val EXCEPT ![p] = ""]
    /\ pc' = [pc EXCEPT ![p] = "idle"]
    /\ UNCHANGED <<senders, bound, arg, binds, closedSeen, raced, sendResult>>

\* ===================================================================
\* SpecMailbox: a Mailbox::new() shared by two callers, fed by channels
\* created with unbounded_channel()
\* ===================================================================

TaskIdle ==
    /\ tpc = "none"
    /\ running = FALSE
    /\ abortReq = FALSE
    /\ startResult = NoCatch
    /\ reason = NoReason
    /\ hookCalls = 0
    /\ hookArg = NoReason
    /\ hookResult = NoCatch
    /\ hookSleeps = 0
    /\ warning = ""
    /\ output = NoReason
    /\ hstate = "none"
    /\ hresult = NoOutcome
    /\ refs = 0
    /\ calledIn = "none"

\* nothing has been sent, received or called yet
ExtrasIdle ==
    /\ sent = [s \in SenderIds |-> 0]
    /\ received = <<>>
    /\ callPc = [c \in Calls |-> "idle"]
    /\ callResult = [c \in Calls |-> NoResult]
    /\ slot = [c \in Calls |-> NoVal]
    /\ replyTo = NoCall
    /\ late = [c \in Calls |-> FALSE]
    /\ mbox = [t \in Chans |-> NoRx]

MailboxNew ==
    /\ receiver = NoRx
    /\ lockHolder = NoOne
    /\ pc = [p \in Callers |-> "idle"]
    /\ held = [p \in Callers |-> NoRx]
    /\ val = [p \in Callers |-> ""]
    /\ arg = [p \in Callers |-> NoRx]
    /\ result = [p \in Callers |-> NoResult]
    /\ binds = 0
    /\ closedSeen = FALSE
    /\ raced = FALSE
    /\ sendResult = NoResult

InitMailbox ==
    /\ MailboxNew
    /\ queue = [ch \in Chans |-> <<>>]
    /\ senders = [ch \in Chans |-> IF ch = TaskChan THEN 1 ELSE 0]
    /\ rxAlive = [ch \in Chans |-> ch = TaskChan]
    /\ bound = [ch \in Chans |-> FALSE]
    /\ TaskIdle
    /\ ExtrasIdle

MbSetReceiverLock == \E p \in Callers, ch \in Chans : set_receiver_lock(p, ch) /\ UNCHANGED <<tvars, xvars>>
MbSetReceiverStore == \E p \in Callers : set_receiver_store(p) /\ UNCHANGED <<tvars, xvars>>
MbRecvLock == \E p \in Callers : recv_lock(p) /\ UNCHANGED <<tvars, xvars>>
MbRecvTake == \E p \in Callers : recv_take(p) /\ UNCHANGED <<tvars, xvars>>
MbRecvAwait == \E p \in Callers : recv_await(p) /\ UNCHANGED <<tvars, xvars>>
MbRecvRelock == \E p \in Callers : recv_relock(p) /\ UNCHANGED <<tvars, xvars>>
MbRecvPut == \E p \in Callers : recv_put(p) /\ UNCHANGED <<tvars, xvars>>
MbSend == \E ch \in Chans, m \in Msgs : chan_send(ch, m) /\ UNCHANGED <<tvars, xvars>>
MbSenderClone == \E ch \in Chans : sender_clone(ch) /\ UNCHANGED <<tvars, xvars>>
MbSenderDrop == \E ch \in Chans : sender_drop(ch) /\ UNCHANGED <<tvars, xvars>>

NextMailbox ==
    \/ MbSetReceiverLock
    \/ MbSetReceiverStore
    \/ MbRecvLock
    \/ MbRecvTake
    \/ MbRecvAwait
    \/ MbRecvRelock
    \/ MbRecvPut
    \/ MbSend
    \/ MbSenderClone
    \/ MbSenderDrop

SpecMailbox == InitMailbox /\ [][NextMailbox]_vars


\* ===================================================================
\* Lifecycle driver generated by #[derive(Task)] (notizia_gen/src/lib.rs)
\* and TaskHandle (task/handle.rs)
\* ===================================================================

\* the panic message extracted from a payload, lines 74-80
PanicMessage_raw(p) == p.text
PanicMessage(p) ==
    IF p.kind = "str" THEN p.text
    ELSE IF p.kind = "String" THEN p.text
    ELSE "unknown panic"

\* the TerminateReason determined from the result of start(), lines 70-83
ReasonOf_panic(r) == Panic("unknown panic")
ReasonOf(r) == IF r.tag = "Ok" THEN Normal ELSE Panic(PanicMessage(r.payload))

\* the reason terminate() is invoked with, line 87: reason.clone()
HookArgument_normal(r) == Normal
HookArgument(r) == r

\* the value __setup returns, line 103: the reason computed before the hook,
\* whatever the hook did
FinalReason_hook(r, h) ==
    IF h.tag = "Err" THEN Panic(PanicMessage(h.payload)) ELSE r
FinalReason(r, h) == r

\* shutdown on an elapsed timeout, line 267: the JoinHandle is dropped with
\* the Timeout future, which detaches the task; abort() is not called
\* (AbortOnTimeout_abort is the behaviour the doc comment of shutdown states)
AbortOnTimeout_abort == TRUE
AbortOnTimeout == FALSE

\* what awaiting the JoinHandle yields, mapped by shutdown, lines 258-268
ShutdownOutcome_err(t, out) == ErrOutcome("JoinError")
ShutdownOutcome(t, out) ==
    IF t = "done" THEN OkReason(out) ELSE ErrOutcome("JoinError")

\* what join returns, line 107
JoinOutcome_err(t, out) == ErrOutcome("JoinError")
JoinOutcome(t, out) ==
    IF t = "done" THEN OkReason(out) ELSE ErrOutcome("JoinError")

\* the task future is at an await that cannot complete now
TaskPending ==
    \/ tpc = "hook_sleep"
    \/ tpc = "reply_sleep"
    \/ /\ tpc = "recv"
       /\ pc[TaskCaller] = "await"
       /\ ChannelRecv(queue[held[TaskCaller]], senders[held[TaskCaller]]) = "pending"
    \/ /\ tpc \in {"setup", "start"} \/ (tpc = "recv" /\ pc[TaskCaller] = "relock")
       /\ lockHolder /= NoOne

TaskLive == tpc \in {"setup", "bind", "start", "recv", "matched", "caught",
                     "hook", "hook_sleep", "hooked", "reply_sleep",
                     "reply_woken"}

\* the receiver lives in the Mailbox of the task-local TaskState and nowhere
\* else: it is dropped with the task future, however many sender clones
\* (n) are still held outside the task
RxAfterTaskDrop_refs(n) == n > 0
RxAfterTaskDrop(n) == FALSE

\* the task future is dropped (completed or aborted): the task-local
\* TaskState goes with it, that is its sender clone and the Mailbox with the
\* receiver, and so does a receiver held by a recv in progress
DropTaskMailbox ==
    /\ senders' = [senders EXCEPT ![TaskChan] = @ - 1]
    /\ rxAlive' = [rxAlive EXCEPT
                      ![TaskChan] = RxAfterTaskDrop(senders[TaskChan] - 1)]
    /\ queue' = DropQueue(queue, TaskChan)
    /\ receiver' = NoRx
    /\ held' = [held EXCEPT ![TaskCaller] = NoRx]
    /\ pc' = [pc EXCEPT ![TaskCaller] = "idle"]
    /\ val' = [val EXCEPT ![TaskCaller] = ""]
    /\ UNCHANGED <<lockHolder, bound, arg, result, binds, closedSeen, raced,
                   sendResult>>

\* Task::run, lines 111-125
run ==
    /\ tpc = "init"
    /\ senders' = [senders EXCEPT ![TaskChan] = 2]
    /\ rxAlive' = [rxAlive EXCEPT ![TaskChan] = TRUE]
    /\ tpc' = "setup"
    /\ hstate' = "live"
    /\ UNCHANGED <<receiver, lockHolder, queue, bound, pc, held, val, arg,
                   result, binds, closedSeen, raced, sendResult>>
    /\ UNCHANGED <<running, abortReq, startResult, reason, hookCalls, hookArg,
                   hookResult, hookSleeps, warning, output, hresult, refs,
                   calledIn>>
    /\ UNCHANGED xvars

\* the runtime polls the task future
poll ==
    /\ TaskLive
    /\ ~running
    /\ ~abortReq
    /\ ~TaskPending
    /\ running' = TRUE
    /\ UNCHANGED mvars
    /\ UNCHANGED <<tpc, abortReq, startResult, reason, hookCalls, hookArg,
                   hookResult, hookSleeps, warning, output, hstate, hresult,
                   refs, calledIn>>
    /\ UNCHANGED xvars

\* the poll returns Pending.  The task future is at one of its await points:
\* set_receiver's lock (mailbox.rs line 42), recv's lock (line 58),
\* receiver.recv() (line 63), recv's second lock (line 66), or a sleep.  It
\* is suspended there because the await cannot complete, or, ready or not,
\* because the poll's cooperative budget is used up (every mpsc recv and
\* every Mutex::lock takes a unit); in the second case the task is woken at
\* once: poll is enabled unless TaskPending
yield ==
    /\ TaskLive
    /\ running
    /\ \/ TaskPending
       \/ tpc \in {"setup", "start"}
       \/ /\ tpc = "recv"
          /\ pc[TaskCaller] \in {"await", "relock"}
    /\ running' = FALSE
    /\ UNCHANGED mvars
    /\ UNCHANGED <<tpc, abortReq, startResult, reason, hookCalls, hookArg,
                   hookResult, hookSleeps, warning, output, hstate, hresult,
                   refs, calledIn>>
    /\ UNCHANGED xvars

TaskUnchangedBut_tpc ==
    UNCHANGED <<running, abortReq, startResult, reason, hookCalls, hookArg,
                hookResult, hookSleeps, warning, output, hstate, hresult,
                refs, calledIn>>

\* __setup, line 62: mb.set_receiver(receiver).await
setup_lock ==
    /\ tpc = "setup"
    /\ running
    /\ set_receiver_lock(TaskCaller, TaskChan)
    /\ tpc' = "bind"
    /\ TaskUnchangedBut_tpc
    /\ UNCHANGED xvars

setup_store ==
    /\ tpc = "bind"
    /\ running
    /\ set_receiver_store(TaskCaller)
    /\ tpc' = "start"
    /\ TaskUnchangedBut_tpc
    /\ UNCHANGED xvars

\* start(): the run routine calls recv
start_recv ==
    /\ tpc = "start"
    /\ running
    /\ recv_lock(TaskCaller)
    /\ tpc' = "recv"
    /\ TaskUnchangedBut_tpc
    /\ UNCHANGED xvars

task_recv_take ==
    /\ tpc = "recv"
    /\ running
    /\ recv_take(TaskCaller)
    /\ tpc' = IF pc'[TaskCaller] = "idle" THEN "matched" ELSE "recv"
    /\ TaskUnchangedBut_tpc
    /\ UNCHANGED xvars

task_recv_await ==
    /\ tpc = "recv"
    /\ running
    /\ recv_await(TaskCaller)
    /\ tpc' = IF pc'[TaskCaller] = "idle" THEN "matched" ELSE "recv"
    /\ TaskUnchangedBut_tpc
    /\ UNCHANGED xvars

task_recv_relock ==
    /\ tpc = "recv"
    /\ running
    /\ recv_relock(TaskCaller)
    /\ UNCHANGED tvars
    /\ UNCHANGED xvars

task_recv_put ==
    /\ tpc = "recv"
    /\ running
    /\ recv_put(TaskCaller)
    /\ tpc' = "matched"
    /\ TaskUnchangedBut_tpc
    /\ UNCHANGED xvars

\* start(): match on what recv returned: Stop or an error leaves the loop,
\* any other message is handled and the loop goes on
start_match ==
    /\ tpc = "matched"
    /\ running
    /\ IF result[TaskCaller] = Ok("Stop") \/ result[TaskCaller].tag = "Err"
       THEN /\ startResult' = CatchOk
            /\ tpc' = "caught"
       ELSE /\ startResult' = startResult
            /\ tpc' = "start"
    /\ UNCHANGED mvars
    /\ UNCHANGED <<running, abortReq, reason, hookCalls, hookArg, hookResult,
                   hookSleeps, warning, output, hstate, hresult, refs,
                   calledIn>>
    /\ UNCHANGED xvars

\* start() returns on its own account
start_return ==
    /\ tpc = "start"
    /\ running
    /\ startResult' = CatchOk
    /\ tpc' = "caught"
    /\ UNCHANGED mvars
    /\ UNCHANGED <<running, abortReq, reason, hookCalls, hookArg, hookResult,
                   hookSleeps, warning, output, hstate, hresult, refs,
                   calledIn>>
    /\ UNCHANGED xvars

\* start() panics; catch_unwind (lines 65-67) yields the payload
start_panic ==
    /\ tpc = "start"
    /\ running
    /\ \E p \in Payloads : startResult' = CatchErr(p)
    /\ tpc' = "caught"
    /\ UNCHANGED mvars
    /\ UNCHANGED <<running, abortReq, reason, hookCalls, hookArg, hookResult,
                   hookSleeps, warning, output, hstate, hresult, refs,
                   calledIn>>
    /\ UNCHANGED xvars

\* __setup, lines 85-88: terminate(reason) is awaited inside catch_unwind
\* before anything else is done with the reason
HookStage_skipped == "hooked"
HookStage == "hook"

\* __setup, lines 70-87: the reason is determined and terminate() is invoked
determine_reason ==
    /\ tpc = "caught"
    /\ running
    /\ reason' = ReasonOf(startResult)
    /\ hookArg' = HookArgument(reason')
    /\ hookCalls' = hookCalls + 1
    /\ tpc' = HookStage
    /\ UNCHANGED mvars
    /\ UNCHANGED <<running, abortReq, startResult, hookResult, hookSleeps,
                   warning, output, hstate, hresult, refs, calledIn>>
    /\ UNCHANGED xvars

\* terminate() awaits something that is not ready (a sleep, a flush)
hook_sleep ==
    /\ tpc = "hook"
    /\ running
    /\ hookSleeps < MaxHookSleeps
    /\ hookSleeps' = hookSleeps + 1
    /\ tpc' = "hook_sleep"
    /\ running' = FALSE
    /\ UNCHANGED mvars
    /\ UNCHANGED <<abortReq, startResult, reason, hookCalls, hookArg,
                   hookResult, warning, output, hstate, hresult, refs,
                   calledIn>>
    /\ UNCHANGED xvars

\* what terminate() awaits becomes ready: the task is woken
hook_wake ==
    /\ tpc = "hook_sleep"
    /\ tpc' = "hook"
    /\ UNCHANGED mvars
    /\ TaskUnchangedBut_tpc
    /\ UNCHANGED xvars

hook_return ==
    /\ tpc = "hook"
    /\ running
    /\ hookResult' = CatchOk
    /\ tpc' = "hooked"
    /\ UNCHANGED mvars
    /\ UNCHANGED <<running, abortReq, startResult, reason, hookCalls, hookArg,
                   hookSleeps, warning, output, hstate, hresult, refs,
                   calledIn>>
    /\ UNCHANGED xvars

\* terminate() panics; catch_unwind (lines 86-88) yields the payload
hook_panic ==
    /\ tpc = "hook"
    /\ running
    /\ \E p \in Payloads : hookResult' = CatchErr(p)
    /\ tpc' = "hooked"
    /\ UNCHANGED mvars
    /\ UNCHANGED <<running, abortReq, startResult, reason, hookCalls, hookArg,
                   hookSleeps, warning, output, hstate, hresult, refs,
                   calledIn>>
    /\ UNCHANGED xvars

\* __setup, lines 91-103: a panic of the hook is logged, the reason is
\* returned and the task future completes
finish ==
    /\ tpc = "hooked"
    /\ running
    /\ warning' = IF hookResult.tag = "Err"
                  THEN PanicMessage(hookResult.payload) ELSE ""
    /\ output' = FinalReason(reason, hookResult)
    /\ tpc' = "done"
    /\ running' = FALSE
    /\ DropTaskMailbox
    /\ UNCHANGED <<abortReq, startResult, reason, hookCalls, hookArg,
                   hookResult, hookSleeps, hstate, hresult, refs, calledIn>>
    /\ UNCHANGED xvars

\* TaskHandle::send, line 145
handle_send ==
    /\ hstate = "live"
    /\ \E m \in Msgs : chan_send(TaskChan, m)
    /\ UNCHANGED tvars
    /\ UNCHANGED xvars

\* TaskHandle::this, line 298
this ==
    /\ hstate = "live"
    /\ refs < MaxRefs
    /\ refs' = refs + 1
    /\ senders' = [senders EXCEPT ![TaskChan] = @ + 1]
    /\ UNCHANGED <<receiver, lockHolder, queue, rxAlive, bound, pc, held,
                   val, arg, result, binds, closedSeen, raced, sendResult>>
    /\ UNCHANGED <<tpc, running, abortReq, startResult, reason, hookCalls,
                   hookArg, hookResult, hookSleeps, warning, output, hstate,
                   hresult, calledIn>>
    /\ UNCHANGED xvars

\* the generated Task::this, lines 127-129, called by the task's own code,
\* in start() (before a recv or on a message) or in terminate(): a TaskRef
\* around a clone of the sender in the task-local TaskState, which is there
\* as long as the task future is, whatever has become of the handle
task_this ==
    /\ tpc \in {"start", "matched", "hook"}
    /\ running
    /\ refs < MaxRefs
    /\ refs' = refs + 1
    /\ senders' = [senders EXCEPT ![TaskChan] = @ + 1]
    /\ UNCHANGED <<receiver, lockHolder, queue, rxAlive, bound, pc, held,
                   val, arg, result, binds, closedSeen, raced, sendResult>>
    /\ UNCHANGED <<tpc, running, abortReq, startResult, reason, hookCalls,
                   hookArg, hookResult, hookSleeps, warning, output, hstate,
                   hresult, calledIn>>
    /\ UNCHANGED xvars

\* TaskRef::clone (derived), reference.rs line 35: a further TaskRef around
\* a clone of the sender of an existing one
ref_clone ==
    /\ refs > 0
    /\ refs < MaxRefs
    /\ refs' = refs + 1
    /\ senders' = [senders EXCEPT ![TaskChan] = @ + 1]
    /\ UNCHANGED <<receiver, lockHolder, queue, rxAlive, bound, pc, held,
                   val, arg, result, binds, closedSeen, raced, sendResult>>
    /\ UNCHANGED <<tpc, running, abortReq, startResult, reason, hookCalls,
                   hookArg, hookResult, hookSleeps, warning, output, hstate,
                   hresult, calledIn>>
    /\ UNCHANGED xvars

\* TaskRef::send, reference.rs line 78
ref_send ==
    /\ refs > 0
    /\ \E m \in Msgs : chan_send(TaskChan, m)
    /\ UNCHANGED tvars
    /\ UNCHANGED xvars

\* a TaskRef is dropped
ref_drop ==
    /\ refs > 0
    /\ refs' = refs - 1
    /\ senders' = [senders EXCEPT ![TaskChan] = @ - 1]
    /\ UNCHANGED <<receiver, lockHolder, queue, rxAlive, bound, pc, held,
                   val, arg, result, binds, closedSeen, raced, sendResult>>
    /\ UNCHANGED <<tpc, running, abortReq, startResult, reason, hookCalls,
                   hookArg, hookResult, hookSleeps, warning, output, hstate,
                   hresult, calledIn>>
    /\ UNCHANGED xvars

\* TaskHandle::join is called, line 106
join_call ==
    /\ hstate = "live"
    /\ hstate' = "joining"
    /\ calledIn' = tpc
    /\ UNCHANGED mvars
    /\ UNCHANGED <<tpc, running, abortReq, startResult, reason, hookCalls,
                   hookArg, hookResult, hookSleeps, warning, output, hresult,
                   refs>>
    /\ UNCHANGED xvars

\* self.handle.await completes, line 107; the handle and its sender are
\* dropped
join_return ==
    /\ hstate = "joining"
    /\ tpc \in {"done", "aborted"}
    /\ hresult' = JoinOutcome(tpc, output)
    /\ hstate' = "joined"
    /\ senders' = [senders EXCEPT ![TaskChan] = @ - 1]
    /\ UNCHANGED <<receiver, lockHolder, queue, rxAlive, bound, pc, held,
                   val, arg, result, binds, closedSeen, raced, sendResult>>
    /\ UNCHANGED <<tpc, running, abortReq, startResult, reason, hookCalls,
                   hookArg, hookResult, hookSleeps, warning, output, refs,
                   calledIn>>
    /\ UNCHANGED xvars

\* TaskHandle::kill, lines 174-176: self.handle.abort(); the handle and its
\* sender are dropped
kill ==
    /\ hstate = "live"
    /\ hstate' = "killed"
    /\ abortReq' = TRUE
    /\ calledIn' = tpc
    /\ senders' = [senders EXCEPT ![TaskChan] = @ - 1]
    /\ UNCHANGED <<receiver, lockHolder, queue, rxAlive, bound, pc, held,
                   val, arg, result, binds, closedSeen, raced, sendResult>>
    /\ UNCHANGED <<tpc, running, startResult, reason, hookCalls, hookArg,
                   hookResult, hookSleeps, warning, output, hresult, refs>>
    /\ UNCHANGED xvars

\* the abort takes effect: a task that is not being polled is never polled
\* again and its future is dropped
abort_effect ==
    /\ abortReq
    /\ TaskLive
    /\ ~running
    /\ tpc' = "aborted"
    /\ DropTaskMailbox
    /\ TaskUnchangedBut_tpc
    /\ UNCHANGED xvars

\* TaskHandle::shutdown is called, lines 247-251: drop(self.sender)
shutdown_call ==
    /\ hstate = "live"
    /\ hstate' = "shutting"
    /\ calledIn' = tpc
    /\ senders' = [senders EXCEPT ![TaskChan] = @ - 1]
    /\ UNCHANGED <<receiver, lockHolder, queue, rxAlive, bound, pc, held,
                   val, arg, result, binds, closedSeen, raced, sendResult>>
    /\ UNCHANGED <<tpc, running, abortReq, startResult, reason, hookCalls,
                   hookArg, hookResult, hookSleeps, warning, output, hresult,
                   refs>>
    /\ UNCHANGED xvars

\* shutdown, lines 258-264: the task completed before the timeout elapsed
shutdown_done ==
    /\ hstate = "shutting"
    /\ tpc \in {"done", "aborted"}
    /\ hresult' = ShutdownOutcome(tpc, output)
    /\ hstate' = "shut"
    /\ UNCHANGED mvars
    /\ UNCHANGED <<tpc, running, abortReq, startResult, reason, hookCalls,
                   hookArg, hookResult, hookSleeps, warning, output, refs,
                   calledIn>>
    /\ UNCHANGED xvars

\* shutdown, line 258: tokio::time::timeout polls the JoinHandle first and
\* resolves to Err(Elapsed) at the deadline if the task has not completed
DeadlineFires_never(completed) == FALSE
DeadlineFires(completed) == ~completed

\* shutdown, line 267: the timeout elapsed with the task not completed
shutdown_timeout ==
    /\ hstate = "shutting"
    /\ DeadlineFires(tpc \in {"done", "aborted"})
    /\ hresult' = ErrOutcome("Timeout")
    /\ hstate' = "shut"
    /\ abortReq' = AbortOnTimeout
    /\ UNCHANGED mvars
    /\ UNCHANGED <<tpc, running, startResult, reason, hookCalls, hookArg,
                   hookResult, hookSleeps, warning, output, refs, calledIn>>
    /\ UNCHANGED xvars

Init ==
    /\ MailboxNew
    /\ queue = [ch \in Chans |-> <<>>]
    /\ senders = [ch \in Chans |-> 0]
    /\ rxAlive = [ch \in Chans |-> FALSE]
    /\ bound = [ch \in Chans |-> FALSE]
    /\ tpc = "init"
    /\ running = FALSE
    /\ abortReq = FALSE
    /\ startResult = NoCatch
    /\ reason = NoReason
    /\ hookCalls = 0
    /\ hookArg = NoReason
    /\ hookResult = NoCatch
    /\ hookSleeps = 0
    /\ warning = ""
    /\ output = NoReason
    /\ hstate = "none"
    /\ hresult = NoOutcome
    /\ refs = 0
    /\ calledIn = "none"
    /\ ExtrasIdle

Next ==
    \/ run
    \/ poll
    \/ yield
    \/ setup_lock
    \/ setup_store
    \/ start_recv
    \/ task_recv_take
    \/ task_recv_await
    \/ task_recv_relock
    \/ task_recv_put
    \/ start_match
    \/ start_return
    \/ start_panic
    \/ determine_reason
    \/ hook_sleep
    \/ hook_wake
    \/ hook_return
    \/ hook_panic
    \/ finish
    \/ handle_send
    \/ this
    \/ task_this
    \/ ref_clone
    \/ ref_send
    \/ ref_drop
    \/ join_call
    \/ join_return
    \/ kill
    \/ abort_effect
    \/ shutdown_call
    \/ shutdown_done
    \/ shutdown_timeout

Spec == Init /\ [][Next]_vars

\* ===================================================================
\* Claims about the Mailbox (checked under SpecMailbox)
\* ===================================================================

\* a recv that holds the extracted endpoint: between take and put-back
InRecv(p) == pc[p] \in {"await", "relock", "put"}

\* a recv suspended in receiver.recv().await with nothing to deliver
Suspended(p) ==
    /\ pc[p] = "await"
    /\ ChannelRecv(queue[held[p]], senders[held[p]]) = "pending"

\* C1: whenever a recv waits for the next message it does not hold the lock,
\* and whoever holds the lock is inside a non-suspending take, put-back or
\* store step, so the lock is released without any message having to arrive.
C1_LockFreeWhileAwaiting ==
    \A p \in Callers :
        pc[p] = "await" =>
            /\ lockHolder /= p
            /\ lockHolder /= NoOne => pc[lockHolder] \in {"take", "put", "set"}

\* C1 witness: one recv is suspended on an empty queue while the other
\* caller has acquired the lock.
C1_Witness ==
    \E p \in Callers, q \in Callers :
        /\ p /= q
        /\ Suspended(p)
        /\ lockHolder = q
        /\ pc[q] = "take"

\* C2 (as claimed): once the mailbox is bound, the slot is None exactly
\* while a recv holds the extracted endpoint, at most one recv holds it, and
\* after every return of recv the slot holds the endpoint again.
C2_SlotEmptyIffRecvInProgress ==
    (binds >= 1) =>
        /\ (receiver = NoRx) <=> (\E p \in Callers : InRecv(p))
        /\ Cardinality({p \in Callers : held[p] /= NoRx}) <= 1

\* C3 (as claimed): once recv has returned Closed, every later recv call
\* returns Closed again.  The calls looked at are those of a caller that is
\* alone on the mailbox, so that each of its calls starts after the previous
\* one has returned.
C3_ClosedAgainAfterClosed ==
    [][\A p \in Callers :
          ( /\ closedSeen
            /\ pc[p] \in {"take", "await"}
            /\ pc'[p] = "idle"
            /\ \A q \in Callers \ {p} : pc[q] = "idle" /\ result[q] = NoResult )
          => result'[p] = Err("Closed")]_vars

\* C4: a recv that finds another recv suspended returns Poisoned in its take
\* step, leaving the suspended recv, the queue and the empty slot untouched;
\* the suspended recv then obtains the message at the head of the queue and
\* its put-back step stores the endpoint in the slot again and returns the
\* message.
C4_SecondRecvPoisoned ==
    [][/\ \A p \in Callers, q \in Callers :
             ( /\ p /= q
               /\ pc[p] = "await"
               /\ pc[q] = "take"
               /\ pc'[q] /= "take" )
             => /\ result'[q] = Err("Poisoned")
                /\ pc'[q] = "idle"
                /\ lockHolder' = NoOne
                /\ pc'[p] = "await"
                /\ held'[p] = held[p]
                /\ queue' = queue
                /\ receiver' = NoRx
       /\ \A p \in Callers :
             (pc[p] = "await" /\ pc'[p] = "relock")
             => val'[p] = Head(queue[held[p]])
       /\ \A p \in Callers :
             (pc[p] = "put" /\ pc'[p] = "idle")
             => /\ receiver' = held[p]
                /\ receiver' /= NoRx
                /\ result'[p] = Ok(val[p])]_vars

\* C4 witness: the second recv has returned Poisoned while the first held
\* the endpoint, the first has since returned a message, and the slot holds
\* the endpoint again.
C4_Witness ==
    \E p \in Callers, q \in Callers :
        /\ p /= q
        /\ raced
        /\ result[q] = Err("Poisoned")
        /\ result[p].tag = "Ok"
        /\ pc[p] = "idle"
        /\ pc[q] = "idle"
        /\ receiver /= NoRx


\* ===================================================================
\* Claims about the task lifecycle (checked under Spec)
\* ===================================================================

\* the message the claims expect for a payload
ExpectedMessage(p) ==
    IF p.kind \in {"str", "String"} THEN p.text ELSE "unknown panic"

\* C5 (as claimed): once shutdown has returned Timeout the task is aborted:
\* a task that is not being polled at that moment is never polled again, so
\* it executes no further step of its run routine or termination hook.
C5_NoStepAfterTimeout ==
    [][(hresult = ErrOutcome("Timeout") /\ ~running) => ~running']_vars

\* C6 (as claimed): when kill() was called while the task was executing its
\* run routine, the termination hook is never invoked.
C6_KillSkipsHook ==
    (hstate = "killed" /\ calledIn \in {"start", "recv", "matched"})
        => hookCalls = 0

\* C7: in a task execution that is not killed the hook is invoked at most
\* once, it has been invoked exactly when the run routine has finished, it is
\* invoked with the one reason the driver computed, and that reason is what
\* the task completes with and what join / shutdown return.
C7_OneReasonOneHook ==
    (hstate /= "killed") =>
        /\ hookCalls <= 1
        /\ (hookCalls = 1) <=> (tpc \in {"hook", "hook_sleep", "hooked", "done"})
        /\ (hookCalls = 1) =>
              /\ startResult.tag /= "None"
              /\ reason.tag /= "None"
              /\ hookArg = reason
        /\ (tpc = "done") => (hookCalls = 1 /\ output = hookArg)
        /\ (hresult.tag = "Ok") => (hookCalls = 1 /\ hresult.reason = hookArg)

\* C7 witness: join has returned the Panic reason the hook was invoked with.
C7_Witness ==
    /\ hstate = "joined"
    /\ hookCalls = 1
    /\ hookArg.tag = "Panic"
    /\ hresult = OkReason(hookArg)

\* C8: the reason is Normal exactly when start() returned without a panic;
\* after a panic it is Panic(m) with m the text of a &str or String payload
\* and "unknown panic" for any other payload; join returns Ok(reason).
C8_ReasonReflectsStart ==
    /\ (reason.tag /= "None") =>
          /\ (reason = Normal) <=> (startResult.tag = "Ok")
          /\ \A p \in Payloads :
                (startResult = CatchErr(p)) => reason = Panic(ExpectedMessage(p))
    /\ (hstate = "joined") =>
          /\ reason.tag /= "None"
          /\ hresult = OkReason(reason)

\* C8 witness: start() panicked with a payload that is no string and join
\* has returned Ok(Panic("unknown panic")).
C8_Witness ==
    /\ hstate = "joined"
    /\ startResult.tag = "Err"
    /\ startResult.payload.kind = "other"
    /\ hresult = OkReason(Panic("unknown panic"))

\* C9: when the termination hook has panicked, the reason stays the one
\* computed before the hook ran (Normal when start() returned), the task can
\* always go on to complete with that reason, join returns Ok of it and
\* shutdown returns Ok of it unless its timeout elapsed; neither is ever
\* turned into a JoinError, and a completed task never leaves join or
\* shutdown waiting.
C9_HookPanicContained ==
    (hookResult.tag = "Err") =>
        /\ reason = hookArg
        /\ (startResult.tag = "Ok") => (reason = Normal)
        /\ (tpc = "hooked") => ENABLED finish
        /\ (tpc = "done") => (output = hookArg)
        /\ (tpc = "done" /\ hstate = "joining") => ENABLED join_return
        /\ (tpc = "done" /\ hstate = "shutting") => ENABLED shutdown_done
        /\ (hstate = "joined") => (hresult = OkReason(hookArg))
        /\ (hstate = "shut") =>
              hresult \in {OkReason(hookArg), ErrOutcome("Timeout")}

\* C9 witness: the hook panicked after a normal return of start(), the
\* warning was logged and join has returned Ok(Normal).
C9_Witness ==
    /\ hookResult.tag = "Err"
    /\ warning /= ""
    /\ hstate = "joined"
    /\ hresult = OkReason(Normal)

\* shutdown was called after start() had panicked, and has returned
ShutAfterPanic ==
    /\ hstate = "shut"
    /\ startResult.tag = "Err"
    /\ calledIn \in {"caught", "hook", "hook_sleep", "hooked", "done"}

\* C10 (as claimed): when start() had already panicked with X at the call of
\* shutdown, shutdown returns Ok(Panic(X)) and the hook was invoked with
\* Panic(X).
C10_ShutdownAfterPanicIsOk ==
    ShutAfterPanic =>
        /\ hresult = OkReason(Panic(ExpectedMessage(startResult.payload)))
        /\ hookArg = Panic(ExpectedMessage(startResult.payload))

\* C10 (amended): when start() had already panicked with X at the call of
\* shutdown, shutdown returns either Ok(Panic(X)), the hook having been
\* invoked once with Panic(X), or Timeout, and Timeout only when the task had
\* not yet completed at the call; never Ok(Normal), never a JoinError.
C10_ShutdownAfterPanic ==
    ShutAfterPanic =>
        \/ /\ hresult = OkReason(Panic(ExpectedMessage(startResult.payload)))
           /\ hookArg = Panic(ExpectedMessage(startResult.payload))
           /\ hookCalls = 1
        \/ /\ hresult = ErrOutcome("Timeout")
           /\ calledIn /= "done"

\* C10 witness: start() panicked with the String "X", the task completed,
\* shutdown was called afterwards and has returned Ok(Panic("X")).
C10_Witness ==
    /\ ShutAfterPanic
    /\ calledIn = "done"
    /\ startResult.payload.kind = "String"
    /\ hresult = OkReason(Panic("X"))
    /\ hookArg = Panic("X")


\* ===================================================================
\* SpecOrder: a receiving task (tests/concurrent_messaging.rs,
\* ConcurrentReceiver) fed by its TaskHandle and by TaskRefs made with
\* this(); every sender sends its own run of distinct values
\* ===================================================================

\* the i-th value sender s sends (the test gives every sender its own decade)
SenderValue(s, i) == s * 10 + i
SenderOf(v) == v \div 10
AllValues == {SenderValue(s, i) : s \in SenderIds, i \in 0..(MaxPerSender - 1)}

\* enum ConcurrentMsg { Value(u32), Stop }: the message Value(v), written
\* with the digits of v, and the number inside such a message
Value(v) == ToString(v)
ValueIn(m) == CHOOSE v \in AllValues : Value(v) = m

\* sender s (the handle, or the TaskRef number s) sends its next value
order_send(s) ==
    /\ IF s = HandleSender THEN hstate = "live" ELSE s <= refs
    /\ sent[s] < MaxPerSender
    /\ chan_send(TaskChan, Value(SenderValue(s, sent[s])))
    /\ sent' = [sent EXCEPT ![s] = @ + 1]
    /\ UNCHANGED tvars
    /\ UNCHANGED <<received, callPc, callResult, slot, replyTo, late, mbox>>

OrderSend == \E s \in SenderIds : order_send(s)

\* ConcurrentReceiver::start, line 26: recv has returned a Value and the
\* task awaits the lock of `received` before the push; the poll returns
\* Pending there when the test's driver holds that lock or when the poll's
\* budget is used up, and the task is suspended with the value in hand,
\* neither queued nor pushed, until a later poll gets the lock
receiver_yield ==
    /\ tpc = "matched"
    /\ running
    /\ result[TaskCaller].tag = "Ok"
    /\ result[TaskCaller].val /= "Stop"
    /\ running' = FALSE
    /\ UNCHANGED mvars
    /\ UNCHANGED <<tpc, abortReq, startResult, reason, hookCalls, hookArg,
                   hookResult, hookSleeps, warning, output, hstate, hresult,
                   refs, calledIn>>
    /\ UNCHANGED xvars

\* ConcurrentReceiver::start, lines 23-31: with the lock of `received`
\* acquired a Value is pushed and the loop goes on; Stop or an error leaves
\* the loop
receiver_match ==
    /\ tpc = "matched"
    /\ running
    /\ IF result[TaskCaller].tag = "Ok" /\ result[TaskCaller].val /= "Stop"
       THEN /\ received' = Append(received, ValueIn(result[TaskCaller].val))
            /\ tpc' = "start"
            /\ startResult' = startResult
       ELSE /\ received' = received
            /\ tpc' = "caught"
            /\ startResult' = CatchOk
    /\ UNCHANGED mvars
    /\ UNCHANGED <<running, abortReq, reason, hookCalls, hookArg, hookResult,
                   hookSleeps, warning, output, hstate, hresult, refs,
                   calledIn>>
    /\ UNCHANGED <<sent, callPc, callResult, slot, replyTo, late, mbox>>

NextOrder ==
    \/ run
    \/ poll
    \/ yield
    \/ setup_lock
    \/ setup_store
    \/ start_recv
    \/ task_recv_take
    \/ task_recv_await
    \/ task_recv_relock
    \/ task_recv_put
    \/ receiver_yield
    \/ receiver_match
    \/ this
    \/ ref_clone
    \/ OrderSend

SpecOrder == Init /\ [][NextOrder]_vars

\* ===================================================================
\* Claims about message delivery (checked under SpecOrder)
\* ===================================================================

\* the values of sender s among the received ones, in the order received
ReceivedFrom(s) == SelectSeq(received, LAMBDA v : SenderOf(v) = s)

\* C11: whatever the other senders interleave, the values the task has
\* received from one sender are the first values that sender sent, in the
\* order it sent them.
C11_FifoPerSender ==
    \A s \in SenderIds :
        /\ Len(ReceivedFrom(s)) <= sent[s]
        /\ \A i \in 1..Len(ReceivedFrom(s)) :
              ReceivedFrom(s)[i] = SenderValue(s, i - 1)

\* C11 witness: the task has received both values of the handle, in send
\* order, with a value of a TaskRef received between them.
C11_Witness ==
    \E i \in DOMAIN received, j \in DOMAIN received, k \in DOMAIN received :
        /\ i < j
        /\ j < k
        /\ received[i] = SenderValue(HandleSender, 0)
        /\ SenderOf(received[j]) /= HandleSender
        /\ received[k] = SenderValue(HandleSender, 1)

\* occurrences of x in the sequence q
Count(x, q) == Cardinality({i \in DOMAIN q : q[i] = x})

\* the value v has left the queue and is on its way through recv to the push
InFlight(v) ==
    \/ pc[TaskCaller] \in {"relock", "put"} /\ val[TaskCaller] = Value(v)
    \/ tpc = "matched" /\ result[TaskCaller] = Ok(Value(v))

\* every sender has sent all its values and the task has drained the queue
AllDelivered ==
    /\ \A s \in SenderIds : sent[s] = MaxPerSender
    /\ queue[TaskChan] = <<>>
    /\ tpc = "recv"
    /\ Suspended(TaskCaller)

\* C12: with several senders sending concurrently, every value sent is, at
\* any moment, exactly once in the queue, on its way through recv, or among
\* the received values, and a value not sent is in none of them; once all
\* values are sent and the queue is drained the task has received each value
\* exactly once.
C12_NoLossNoDuplication ==
    /\ \A s \in SenderIds : \A i \in 0..(MaxPerSender - 1) :
          Count(SenderValue(s, i), received)
            + Count(Value(SenderValue(s, i)), queue[TaskChan])
            + (IF InFlight(SenderValue(s, i)) THEN 1 ELSE 0)
          = (IF i < sent[s] THEN 1 ELSE 0)
    /\ AllDelivered =>
          /\ Len(received) = (MaxSendingRefs + 1) * MaxPerSender
          /\ \A s \in SenderIds : \A i \in 0..(MaxPerSender - 1) :
                Count(SenderValue(s, i), received) = 1

\* C12 witness: all senders have sent all their values, the task has
\* received every one of them, and the senders were interleaved: the first
\* and the last value received come from the same sender.
C12_Witness ==
    /\ AllDelivered
    /\ Len(received) = (MaxSendingRefs + 1) * MaxPerSender
    /\ SenderOf(received[1]) = SenderOf(received[Len(received)])


\* ===================================================================
\* Claims about sending, join and shutdown (checked under Spec)
\* ===================================================================

\* the task future has completed or was aborted
Terminated == tpc \in {"done", "aborted"}

\* C13: once the task has terminated its receive endpoint is gone, whatever
\* TaskRef clones are still held; every send through the handle or a TaskRef
\* then returns an error carrying the message passed in, and the queue stays
\* empty.
C13_SendAfterTermination ==
    [][Terminated =>
          /\ ~rxAlive[TaskChan]
          /\ queue'[TaskChan] = <<>>
          /\ (sendResult' /= sendResult) => (sendResult'.tag = "Err")
          /\ \A m \in Msgs :
                ((handle_send \/ ref_send) /\ chan_send(TaskChan, m))
                    => (sendResult' = Err(m))]_vars

\* C13 witness: join has returned, a TaskRef is still held, and a send of
\* DoWork has come back as an error carrying DoWork, with nothing queued.
C13_Witness ==
    /\ hstate = "joined"
    /\ tpc = "done"
    /\ refs > 0
    /\ senders[TaskChan] > 0
    /\ sendResult = Err("DoWork")
    /\ queue[TaskChan] = <<>>


\* C14: the call of join changes nothing but the handle: no sender is
\* dropped, nothing is sent or removed, no abort is requested; while join
\* waits the channel stays open with the handle's sender alive, and a message
\* leaves the queue only by being delivered to the task's recv or with the
\* task finishing; join returns only when the task has completed by itself,
\* after its hook, and returns Ok of the reason the task completed with.
C14_JoinIsPassive ==
    [][/\ (hstate = "live" /\ hstate' = "joining") =>
             /\ queue' = queue
             /\ senders' = senders
             /\ rxAlive' = rxAlive
             /\ receiver' = receiver
             /\ sendResult' = sendResult
             /\ abortReq' = abortReq
             /\ tpc' = tpc
             /\ running' = running
       /\ (hstate = "joining" /\ TaskLive) =>
             /\ rxAlive[TaskChan]
             /\ senders[TaskChan] = refs + 2
             /\ ~abortReq
       /\ (hstate = "joining" /\ Len(queue'[TaskChan]) < Len(queue[TaskChan])) =>
             \/ /\ val'[TaskCaller] = Head(queue[TaskChan])
                /\ queue'[TaskChan] = Tail(queue[TaskChan])
             \/ tpc' = "done"
       /\ (hstate = "joining" /\ hstate' = "joined") =>
             /\ tpc = "done"
             /\ hookCalls = 1
             /\ output = reason
             /\ hresult' = OkReason(output)]_vars

\* C14 witness: join was called before the task had bound its mailbox, the
\* Stop message was delivered to the task while join was waiting, and join
\* has returned Ok(Normal).
C14_Witness ==
    /\ hstate = "joined"
    /\ calledIn = "setup"
    /\ result[TaskCaller] = Ok("Stop")
    /\ hresult = OkReason(Normal)

\* C15: the call of shutdown drops exactly the handle's sender and leaves
\* the receive side and the queue alone; while the task lives after the call
\* the channel still has the task's own sender and those of the TaskRefs, and
\* a recv returns Closed only in a step taken with no sender left at all.
C15_ClosedOnlyWithoutSenders ==
    [][/\ \A p \in Callers :
             ( /\ pc[p] = "await"
               /\ pc'[p] = "idle"
               /\ result'[p] = Err("Closed")
               /\ ~Terminated' )
             => senders[held[p]] = 0
       /\ (hstate = "live" /\ hstate' = "shutting") =>
             /\ senders'[TaskChan] = senders[TaskChan] - 1
             /\ rxAlive' = rxAlive
             /\ queue' = queue
             /\ receiver' = receiver
       /\ (hstate \in {"shutting", "shut"} /\ TaskLive) =>
             /\ senders[TaskChan] = refs + 1
             /\ rxAlive[TaskChan]
             /\ ~closedSeen]_vars

\* C15 witness: shutdown has dropped the handle's sender, no TaskRef exists,
\* and the task is still suspended in recv: its own sender keeps the channel
\* open.
C15_Witness ==
    /\ hstate = "shutting"
    /\ refs = 0
    /\ senders[TaskChan] = 1
    /\ tpc = "recv"
    /\ ~running
    /\ Suspended(TaskCaller)

\* C16 (as claimed): after shutdown was called on a task waiting in recv,
\* with no TaskRef held, the channel is closed: the recv the task waits in
\* on the empty queue completes with Closed.
C16_ShutdownClosesChannel ==
    ( /\ hstate \in {"shutting", "shut"}
      /\ refs = 0
      /\ calledIn = "recv"
      /\ tpc = "recv"
      /\ pc[TaskCaller] = "await"
      /\ queue[TaskChan] = <<>> )
    => ChannelRecv(queue[TaskChan], senders[TaskChan]) = "closed"


\* ===================================================================
\* SpecCall: call! (macros.rs) against a responder task
\* (tests/call_cast.rs: Counter, SlowResponder, NeverResponder); one client
\* makes its calls one after the other, through the handle or a TaskRef
\* ===================================================================

\* the request of call c: a message carrying the reply sender of the
\* oneshot channel call c created (line 138)
RequestNames == <<"Request1", "Request2">>
Request(c) == RequestNames[c]
CallOf(m) == CHOOSE c \in Calls : Request(c) = m

\* the reply sender of call c still exists: inside the queued request, inside
\* the request on its way through recv, or in the hands of the responder
TxAlive(c) ==
    \/ \E i \in DOMAIN queue[TaskChan] : queue[TaskChan][i] = Request(c)
    \/ /\ TaskLive
       /\ \/ pc[TaskCaller] \in {"relock", "put"} /\ val[TaskCaller] = Request(c)
          \/ tpc = "matched" /\ result[TaskCaller] = Ok(Request(c))
          \/ replyTo = c

\* line 142: a failed send ends the call, `?` returns before anything is
\* awaited
AfterSend_wait(sr) == "wait"
AfterSend(sr) == IF sr.tag = "Err" THEN "return" ELSE "wait"

\* the oneshot receiver inside timeout(), line 144: ready once a value was
\* sent or the sender was dropped
RecvReady_value(v, alive) == v /= NoVal
RecvReady(v, alive) == v /= NoVal \/ ~alive

\* lines 145-147 for a ready receiver: the value, or ChannelClosed when the
\* sender was dropped without sending
CallOutcome_lost(v) == Err("ChannelClosed")
CallOutcome(v) == IF v /= NoVal THEN Ok(v) ELSE Err("ChannelClosed")

\* oneshot::Sender::send: the value is stored for the receiver, or handed
\* back and dropped when the receiver is gone
OneshotSend_stored(rx, old, v) == v
OneshotSend(rx, old, v) == IF rx THEN v ELSE old

\* the oneshot channel call c waits on: the one it created itself, line 138
ReplyChannel_shared(c) == 1
ReplyChannel(c) == c

\* timeout(), line 144, takes the Elapsed branch only when the receiver it
\* polled first was not ready
TimeoutBranch_first(ready) == TRUE
TimeoutBranch_never(ready) == FALSE
TimeoutBranch(ready) == ~ready

\* call!, lines 138-142: create the reply channel, send the request
call_start(c) ==
    /\ callPc[c] = "idle"
    /\ hstate = "live" \/ refs > 0
    /\ chan_send(TaskChan, Request(c))
    /\ IF AfterSend(sendResult') = "wait"
       THEN /\ callPc' = [callPc EXCEPT ![c] = "waiting"]
            /\ callResult' = callResult
       ELSE /\ callPc' = [callPc EXCEPT ![c] = "returned"]
            /\ callResult' = [callResult EXCEPT ![c] = Err("SendError")]
    /\ UNCHANGED tvars
    /\ UNCHANGED <<sent, received, slot, replyTo, late, mbox>>

\* a client that makes its calls one after the other
call_send(c) ==
    /\ \A d \in Calls : d < c => callPc[d] = "returned"
    /\ call_start(c)

\* call!, lines 144-147: timeout() polls the receiver first; it is ready
call_recv(c) ==
    /\ callPc[c] = "waiting"
    /\ RecvReady(slot[ReplyChannel(c)], TxAlive(ReplyChannel(c)))
    /\ callResult' = [callResult EXCEPT
                         ![c] = CallOutcome(slot[ReplyChannel(c)])]
    /\ callPc' = [callPc EXCEPT ![c] = "returned"]
    /\ UNCHANGED mvars
    /\ UNCHANGED tvars
    /\ UNCHANGED <<sent, received, slot, replyTo, late, mbox>>

\* call!, lines 144-146: the deadline elapses with the receiver not ready
call_timeout(c) ==
    /\ callPc[c] = "waiting"
    /\ TimeoutBranch(RecvReady(slot[ReplyChannel(c)], TxAlive(ReplyChannel(c))))
    /\ callResult' = [callResult EXCEPT ![c] = Err("Timeout")]
    /\ callPc' = [callPc EXCEPT ![c] = "returned"]
    /\ UNCHANGED mvars
    /\ UNCHANGED tvars
    /\ UNCHANGED <<sent, received, slot, replyTo, late, mbox>>

CallSend == \E c \in Calls : call_send(c)
CallRecv == \E c \in Calls : call_recv(c)
CallTimeout == \E c \in Calls : call_timeout(c)

\* reply_to.send(v) for call c, by the responder
ReplySend(c, v) ==
    /\ slot' = [slot EXCEPT ![c] = OneshotSend(callPc[c] = "waiting", @, v)]
    /\ late' = [late EXCEPT ![c] = @ \/ callPc[c] /= "waiting"]

TaskUnchangedBut_tpc_running ==
    UNCHANGED <<abortReq, startResult, reason, hookCalls, hookArg,
                hookResult, hookSleeps, warning, output, hstate, hresult,
                refs, calledIn>>

\* Counter::start, lines 33-36: the request is answered at once
respond_reply ==
    /\ tpc = "matched"
    /\ running
    /\ result[TaskCaller].tag = "Ok"
    /\ \E v \in Replies : ReplySend(CallOf(result[TaskCaller].val), v)
    /\ tpc' = "start"
    /\ UNCHANGED mvars
    /\ TaskUnchangedBut_tpc
    /\ UNCHANGED <<sent, received, callPc, callResult, replyTo, mbox>>

\* NeverResponder::start, lines 289-293: the reply sender is dropped unused;
\* an error of recv leaves the loop
respond_drop ==
    /\ tpc = "matched"
    /\ running
    /\ IF result[TaskCaller].tag = "Ok"
       THEN tpc' = "start" /\ startResult' = startResult
       ELSE tpc' = "caught" /\ startResult' = CatchOk
    /\ UNCHANGED mvars
    /\ UNCHANGED <<running, abortReq, reason, hookCalls, hookArg, hookResult,
                   hookSleeps, warning, output, hstate, hresult, refs,
                   calledIn>>
    /\ UNCHANGED xvars

\* SlowResponder::start, lines 90-92: the responder sleeps, holding the
\* reply sender
respond_sleep ==
    /\ tpc = "matched"
    /\ running
    /\ result[TaskCaller].tag = "Ok"
    /\ replyTo' = CallOf(result[TaskCaller].val)
    /\ tpc' = "reply_sleep"
    /\ running' = FALSE
    /\ UNCHANGED mvars
    /\ TaskUnchangedBut_tpc_running
    /\ UNCHANGED <<sent, received, callPc, callResult, slot, late, mbox>>

\* the sleep of the responder is over: the task is woken
reply_wake ==
    /\ tpc = "reply_sleep"
    /\ tpc' = "reply_woken"
    /\ UNCHANGED mvars
    /\ TaskUnchangedBut_tpc
    /\ UNCHANGED xvars

\* SlowResponder::start, line 93: the reply is sent after the sleep
respond_late ==
    /\ tpc = "reply_woken"
    /\ running
    /\ \E v \in Replies : ReplySend(replyTo, v)
    /\ replyTo' = NoCall
    /\ tpc' = "start"
    /\ UNCHANGED mvars
    /\ TaskUnchangedBut_tpc
    /\ UNCHANGED <<sent, received, callPc, callResult, mbox>>

NextCall ==
    \/ run
    \/ poll
    \/ yield
    \/ setup_lock
    \/ setup_store
    \/ start_recv
    \/ task_recv_take
    \/ task_recv_await
    \/ task_recv_relock
    \/ task_recv_put
    \/ respond_reply
    \/ respond_drop
    \/ respond_sleep
    \/ reply_wake
    \/ respond_late
    \/ start_return
    \/ determine_reason
    \/ hook_return
    \/ finish
    \/ this
    \/ ref_clone
    \/ kill
    \/ abort_effect
    \/ CallSend
    \/ CallRecv
    \/ CallTimeout

SpecCall == Init /\ [][NextCall]_vars


\* ===================================================================
\* Claims about call! (checked under SpecCall)
\* ===================================================================

\* C17: a value is stored in the reply channel of a call only while the call
\* waits, that is before its deadline; from then on the call cannot time
\* out, its next step returns, and once it has returned its result is Ok of
\* that very value; a call returns Ok of nothing else.
C17_ReplyInTimeIsReturned ==
    \A c \in Calls :
        /\ (slot[c] /= NoVal) =>
              /\ callPc[c] \in {"waiting", "returned"}
              /\ (callPc[c] = "waiting") =>
                    (ENABLED call_recv(c) /\ ~ENABLED call_timeout(c))
              /\ (callPc[c] = "returned") => (callResult[c] = Ok(slot[c]))
        /\ (callResult[c].tag = "Ok") =>
              (slot[c] \in Replies /\ callResult[c].val = slot[c])

\* C17 witness: the responder has received the request of call 1 and
\* replied 3, and the call has returned Ok(3).
C17_Witness ==
    /\ callPc[1] = "returned"
    /\ slot[1] = "3"
    /\ callResult[1] = Ok("3")
    /\ ~late[1]

\* C18: a call that leaves its wait with no reply sent and the reply sender
\* alive returns Timeout; a reply sent on its channel afterwards is dropped:
\* it changes no reply channel and no result, the result stays Timeout, and
\* every Ok a call returns carries the value sent on that call's own channel.
C18_TimeoutAndLateReply ==
    [][\A c \in Calls :
          /\ ( /\ callPc[c] = "waiting"
               /\ callPc'[c] = "returned"
               /\ slot[c] = NoVal
               /\ TxAlive(c) )
             => callResult'[c] = Err("Timeout")
          /\ (callResult[c] = Err("Timeout")) =>
                /\ slot'[c] = NoVal
                /\ callResult'[c] = Err("Timeout")
          /\ (late'[c] /\ ~late[c]) =>
                /\ slot' = slot
                /\ callResult' = callResult
          /\ (callResult'[c].tag = "Ok") =>
                (slot'[c] /= NoVal /\ callResult'[c] = Ok(slot'[c]))]_vars

\* C18 witness: call 1 has timed out, the responder has replied to it
\* afterwards, and the following call 2 has returned the value sent on its
\* own channel.
C18_Witness ==
    /\ callResult[1] = Err("Timeout")
    /\ late[1]
    /\ slot[1] = NoVal
    /\ callPc[2] = "returned"
    /\ slot[2] /= NoVal
    /\ callResult[2] = Ok(slot[2])

\* the responder has received the request of call c and dropped the reply
\* sender without sending, and the call still waits (its deadline has not
\* elapsed)
DroppedWhileWaiting(c) ==
    /\ callPc[c] = "waiting"
    /\ slot[c] = NoVal
    /\ ~TxAlive(c)

\* C19: when the reply sender was dropped without a value while the call
\* waits, the call cannot time out any more, its next step returns, and it
\* returns ChannelClosed; nothing is stored in its reply channel later.
C19_DroppedReplySender ==
    [][\A c \in Calls :
          DroppedWhileWaiting(c) =>
              /\ ENABLED call_recv(c)
              /\ ~ENABLED call_timeout(c)
              /\ slot'[c] = NoVal
              /\ (callPc'[c] /= "waiting") =>
                    /\ callPc'[c] = "returned"
                    /\ callResult'[c] = Err("ChannelClosed")]_vars

\* C19 witness: the responder, still running its loop, dropped the reply
\* sender of call 1, and the call has returned ChannelClosed.
C19_Witness ==
    /\ callResult[1] = Err("ChannelClosed")
    /\ TaskLive
    /\ ~abortReq
    /\ slot[1] = NoVal

\* C20: a call made when the receive endpoint of the task is gone returns in
\* its send step, without entering the wait, with SendError; nothing is
\* queued and no reply channel is touched.
C20_SendErrorAtOnce ==
    [][\A c \in Calls :
          (callPc[c] = "idle" /\ callPc'[c] /= "idle" /\ ~rxAlive[TaskChan]) =>
              /\ callPc'[c] = "returned"
              /\ callResult'[c] = Err("SendError")
              /\ queue' = queue
              /\ slot' = slot]_vars

\* C20 witness: the task was aborted and a call through a TaskRef has
\* returned SendError.
C20_Witness ==
    /\ tpc = "aborted"
    /\ refs > 0
    /\ \E c \in Calls : callPc[c] = "returned" /\ callResult[c] = Err("SendError")


\* ===================================================================
\* SpecEcho: concurrent clients call an EchoServer (tests/call_cast.rs,
\* multiple_concurrent_calls_work) through the shared handle
\* ===================================================================

\* the id client c puts in its request: task_id * 100 + call_id
EchoId(c) == ToString((c - 1) * 100)

CallStart == \E c \in Calls : call_start(c)

\* EchoServer::start, lines 207-215: the id of the request is sent back on
\* the reply sender of the request; an error of recv leaves the loop
echo_reply ==
    /\ tpc = "matched"
    /\ running
    /\ IF result[TaskCaller].tag = "Ok"
       THEN /\ ReplySend(CallOf(result[TaskCaller].val),
                         EchoId(CallOf(result[TaskCaller].val)))
            /\ tpc' = "start"
            /\ startResult' = startResult
       ELSE /\ tpc' = "caught"
            /\ startResult' = CatchOk
            /\ UNCHANGED <<slot, late, mbox>>
    /\ UNCHANGED mvars
    /\ UNCHANGED <<running, abortReq, reason, hookCalls, hookArg, hookResult,
                   hookSleeps, warning, output, hstate, hresult, refs,
                   calledIn>>
    /\ UNCHANGED <<sent, received, callPc, callResult, replyTo, mbox>>

NextEcho ==
    \/ run
    \/ poll
    \/ yield
    \/ setup_lock
    \/ setup_store
    \/ start_recv
    \/ task_recv_take
    \/ task_recv_await
    \/ task_recv_relock
    \/ task_recv_put
    \/ echo_reply
    \/ CallStart
    \/ CallRecv
    \/ CallTimeout

SpecEcho == Init /\ [][NextEcho]_vars

\* C21: with calls in progress at the same time, a value stored in the reply
\* channel of a call is the reply to that call's own request, and a call
\* that returns Ok returns the reply to its own request, never that of
\* another call.
C21_CallsAreIndependent ==
    \A c \in Calls :
        /\ (slot[c] /= NoVal) => (slot[c] = EchoId(c))
        /\ (callResult[c].tag = "Ok") => (callResult[c] = Ok(EchoId(c)))

\* C21 witness: both calls were in progress together; call 2 has returned
\* the reply to its own request while call 1 still waits with its own reply
\* stored.
C21_Witness ==
    /\ callPc[1] = "waiting"
    /\ slot[1] = EchoId(1)
    /\ callPc[2] = "returned"
    /\ callResult[2] = Ok(EchoId(2))


\* ===================================================================
\* Further claims about the Mailbox (checked under SpecMailbox)
\* ===================================================================

\* C22: as long as no set_receiver has completed the slot is empty and no
\* recv holds an endpoint; every recv then ends in its take step with
\* Poisoned, first call or repeated, and leaves slot, channels and the other
\* callers as they were, the lock being free again.
C22_UnboundIsPoisoned ==
    [][(binds = 0) =>
          /\ receiver = NoRx
          /\ \A p \in Callers : held[p] = NoRx
          /\ \A p \in Callers :
                (pc[p] = "take" /\ pc'[p] /= "take") =>
                    /\ result'[p] = Err("Poisoned")
                    /\ pc'[p] = "idle"
                    /\ lockHolder' = NoOne
                    /\ receiver' = NoRx
                    /\ UNCHANGED <<queue, senders, rxAlive, bound, held,
                                   binds>>
                    /\ \A q \in Callers \ {p} :
                          pc'[q] = pc[q] /\ result'[q] = result[q]]_vars

\* C22 witness: set_receiver was never called, both callers have received
\* Poisoned, and caller 1 is in the take step of a further recv.
C22_Witness ==
    /\ binds = 0
    /\ \A ch \in Chans : ~bound[ch]
    /\ \A p \in Callers : result[p] = Err("Poisoned")
    /\ pc[1] = "take"

\* C23: a recv that finds the endpoint in the slot extracts it, and a recv
\* holding an endpoint with an empty queue and no sender left does not stay
\* suspended: its await step is enabled and returns Closed.
C23_ClosedWhenNoSenders ==
    [][\A p \in Callers :
          /\ (pc[p] = "take" /\ receiver /= NoRx /\ pc'[p] /= "take") =>
                (pc'[p] = "await" /\ held'[p] = receiver)
          /\ ( /\ pc[p] = "await"
               /\ queue[held[p]] = <<>>
               /\ senders[held[p]] = 0 )
             => /\ ENABLED recv_await(p)
                /\ (pc'[p] /= "await") =>
                      (pc'[p] = "idle" /\ result'[p] = Err("Closed"))]_vars

\* C23 witness: the mailbox was bound, the only sender was dropped with
\* nothing queued, and a recv has returned Closed.
C23_Witness ==
    /\ binds = 1
    /\ senders[TaskChan] = 0
    /\ closedSeen
    /\ \E p \in Callers : pc[p] = "idle" /\ result[p] = Err("Closed")


\* ===================================================================
\* Further claims about the task lifecycle (checked under Spec)
\* ===================================================================

\* the phase of the task instance: Spawned from run() until __setup invokes
\* start(), Running while start() executes, Completing from the moment
\* catch_unwind has caught its outcome until the hook's outcome is handled,
\* Terminated when __setup has returned, Aborted when the future was
\* dropped by an abort
Phase ==
    CASE tpc = "init" -> "Created"
      [] tpc \in {"setup", "bind"} -> "Spawned"
      [] tpc \in {"start", "recv", "matched", "reply_sleep", "reply_woken"}
            -> "Running"
      [] tpc \in {"caught", "hook", "hook_sleep", "hooked"} -> "Completing"
      [] tpc = "done" -> "Terminated"
      [] tpc = "aborted" -> "Aborted"

\* the edges of the state machine; an abort cuts in from any phase that is
\* not final
PhaseEdges ==
    {<<"Created", "Spawned">>, <<"Spawned", "Running">>,
     <<"Running", "Completing">>, <<"Completing", "Terminated">>,
     <<"Spawned", "Aborted">>, <<"Running", "Aborted">>,
     <<"Completing", "Aborted">>}

\* C24 (as claimed): the task moves only along the edges of the state
\* machine and only a requested abort leads to Aborted; Terminated and
\* Aborted are final; once kill() has been called a Running task does not
\* enter Completing; and shutdown() returns either having observed
\* Terminated or having requested the abort that forces Aborted.
C24_Lifecycle ==
    [][/\ (Phase' /= Phase) => (<<Phase, Phase'>> \in PhaseEdges)
       /\ (Phase' = "Aborted" /\ Phase /= "Aborted") => abortReq
       /\ (Phase \in {"Terminated", "Aborted"}) => (Phase' = Phase)
       /\ (hstate = "killed" /\ Phase = "Running") => (Phase' /= "Completing")
       /\ (hstate = "shutting" /\ hstate' = "shut") =>
             \/ (Phase = "Terminated" /\ hresult'.tag = "Ok")
             \/ abortReq']_vars


\* C25: whenever join or shutdown has returned Ok(reason), the termination
\* hook has been invoked and has finished (returned or panicked) and the
\* task future has completed: Ok is never returned while the hook is
\* running, suspended or not yet started.
C25_OkOnlyAfterHook ==
    (hstate \in {"joined", "shut"} /\ hresult.tag = "Ok") =>
        /\ hookCalls = 1
        /\ hookResult.tag /= "None"
        /\ tpc = "done"

\* C25 witness: shutdown was called while the hook was suspended in a sleep
\* and has returned Ok after the hook finished.
C25_Witness ==
    /\ hstate = "shut"
    /\ calledIn = "hook_sleep"
    /\ hookSleeps = 1
    /\ hookResult.tag /= "None"
    /\ hresult.tag = "Ok"


\* The caller of shutdown is itself scheduled and its timer fires: the
\* return of shutdown is weakly fair. Nothing is assumed about the task.
SpecFair == Spec /\ WF_vars(shutdown_done \/ shutdown_timeout)

\* C26: a shutdown that was called returns, whatever the task does (no step
\* of the task is needed for it); it returns Ok(reason) exactly when the
\* task had completed at that moment and ShutdownError::Timeout otherwise.
C26_ShutdownReturns ==
    /\ (hstate = "shutting") ~> (hstate = "shut")
    /\ [][(hstate = "shutting" /\ hstate' = "shut") =>
             hresult' = IF tpc = "done" THEN OkReason(output)
                                        ELSE ErrOutcome("Timeout")]_vars

\* C26 witness: shutdown has returned Timeout while the task is still
\* suspended in recv with nothing queued.
C26_Witness ==
    /\ hstate = "shut"
    /\ hresult = ErrOutcome("Timeout")
    /\ tpc = "recv"
    /\ pc[TaskCaller] = "await"
    /\ queue[TaskChan] = <<>>


\* ===================================================================
\* Further claims about call! (checked under SpecCall and SpecCallFair)
\* ===================================================================

\* The caller of call! is itself scheduled and its timer fires: the return
\* of every call is weakly fair. Nothing is assumed about the responder,
\* which may be suspended for ever, for instance in a call of its own.
SpecCallFair ==
    SpecCall /\ \A c \in Calls : WF_vars(call_recv(c) \/ call_timeout(c))

\* the results a call can return, lines 140-147
CallResults ==
    {Ok(v) : v \in Replies}
        \cup {Err("SendError"), Err("Timeout"), Err("ChannelClosed")}

\* C27: every call that waits returns, whether or not the responder ever
\* takes another step; a call that has returned has exactly one of the
\* results Ok(reply), SendError, Timeout, ChannelClosed, and keeps it.
C27_CallReturns ==
    /\ \A c \in Calls : (callPc[c] = "waiting") ~> (callPc[c] = "returned")
    /\ [](\A c \in Calls :
             (callPc[c] = "returned") => (callResult[c] \in CallResults))
    /\ [][\A c \in Calls :
             (callPc[c] = "returned") =>
                 (callPc'[c] = "returned" /\ callResult'[c] = callResult[c])]_vars

\* C27 witness: the responder is suspended holding a reply sender and never
\* answered; both calls have returned Timeout.
C27_Witness ==
    /\ tpc = "reply_sleep"
    /\ \A c \in Calls :
          callPc[c] = "returned" /\ callResult[c] = Err("Timeout")


\* C28: while a call waits with its reply sender dropped and no value sent,
\* its return is enabled at once, without the deadline; a waiting call
\* returns ChannelClosed exactly when it returns from such a state, and it
\* returns Timeout only from a state where the reply sender was still alive
\* and had sent nothing.
C28_ClosedBeforeDeadline ==
    [][\A c \in Calls :
          /\ DroppedWhileWaiting(c) => ENABLED call_recv(c)
          /\ (callPc[c] = "waiting" /\ callPc'[c] = "returned") =>
                /\ (callResult'[c] = Err("ChannelClosed"))
                      <=> DroppedWhileWaiting(c)
                /\ (callResult'[c] = Err("Timeout"))
                      => (TxAlive(c) /\ slot[c] = NoVal)]_vars

\* C28 witness: call 1 has returned ChannelClosed and the reply sender of
\* call 2 has just been dropped while call 2 waits.
C28_Witness ==
    /\ callResult[1] = Err("ChannelClosed")
    /\ DroppedWhileWaiting(2)


\* C29: the abort takes effect only on a task that is not being polled, and
\* in that step what was queued is discarded undelivered; from then on the
\* task stays aborted and is never polled, nothing of its run routine or
\* hook changes, nothing is received or queued, and no send succeeds.
C29_NothingAfterAbort ==
    [][/\ (tpc /= "aborted" /\ tpc' = "aborted") =>
             /\ abortReq /\ ~running
             /\ queue'[TaskChan] = <<>>
             /\ ~rxAlive'[TaskChan]
             /\ UNCHANGED <<result, startResult, hookCalls, hookResult>>
       /\ (tpc = "aborted") =>
             /\ tpc' = "aborted"
             /\ ~running'
             /\ UNCHANGED <<startResult, reason, hookCalls, hookArg,
                            hookResult, warning, output>>
             /\ UNCHANGED <<receiver, pc, held, val, result>>
             /\ queue'[TaskChan] = <<>>
             /\ ~rxAlive'[TaskChan]
             /\ (sendResult'.tag = "Ok") => (sendResult' = sendResult)]_vars

\* C29 witness: kill() was called while the task was in recv, the abort has
\* taken effect before the hook was ever invoked, and a later send through
\* a TaskRef has failed.
C29_Witness ==
    /\ tpc = "aborted"
    /\ hstate = "killed"
    /\ calledIn = "recv"
    /\ hookCalls = 0
    /\ refs > 0
    /\ sendResult = Err("Stop")


\* ===================================================================
\* A Mailbox used directly with two channels (SpecRebind)
\* ===================================================================

\* Mailbox::new() and two unbounded_channel() calls: both channels are open
\* with one sender each and neither receiver has been handed to the mailbox
InitRebind ==
    /\ MailboxNew
    /\ queue = [ch \in Chans |-> <<>>]
    /\ senders = [ch \in Chans |-> 1]
    /\ rxAlive = [ch \in Chans |-> TRUE]
    /\ bound = [ch \in Chans |-> FALSE]
    /\ TaskIdle
    /\ ExtrasIdle

\* each channel carries its own message, so that a received value tells
\* which endpoint it was read from
RebindMsg(ch) == IF ch = TaskChan THEN "DoWork" ELSE "Stop"

RebindSend ==
    \E ch \in Chans : chan_send(ch, RebindMsg(ch)) /\ UNCHANGED <<tvars, xvars>>

NextRebind ==
    \/ MbSetReceiverLock
    \/ MbSetReceiverStore
    \/ MbRecvLock
    \/ MbRecvTake
    \/ MbRecvAwait
    \/ MbRecvRelock
    \/ MbRecvPut
    \/ RebindSend
    \/ MbSenderDrop

SpecRebind == InitRebind /\ [][NextRebind]_vars

\* C30: a mailbox is bound once and never reassigned: once a set_receiver
\* has completed, a further set_receiver that finds an endpoint in the slot
\* leaves that endpoint there, so that later recv calls still extract and
\* read the endpoint bound first.
C30_BoundOnce ==
    [][\A p \in Callers :
          (binds >= 1 /\ receiver /= NoRx /\ pc[p] = "set" /\ pc'[p] = "idle")
              => receiver' = receiver]_vars


\* ===================================================================
\* Claims about sending and the run loop (checked under Spec)
\* ===================================================================

\* C31: a send through the handle or a TaskRef while the receive endpoint is
\* alive returns Ok and appends exactly that one message to the queue,
\* however many are queued; it is enabled in every state of the task (it
\* never waits for the receiver); and a send fails only when the receive
\* endpoint is gone, with the message handed back (there is no other error).
C31_SendNeverWaits ==
    [][/\ \A m \in Msgs :
             ((handle_send \/ ref_send) /\ chan_send(TaskChan, m)
                 /\ rxAlive[TaskChan]) =>
                 /\ sendResult' = Ok("")
                 /\ queue'[TaskChan] = Append(queue[TaskChan], m)
       /\ (hstate = "live" /\ rxAlive[TaskChan]
              /\ Len(queue[TaskChan]) < MaxQueue) => ENABLED handle_send
       /\ (sendResult' /= sendResult /\ sendResult'.tag /= "Ok") =>
             /\ ~rxAlive[TaskChan]
             /\ \E m \in Msgs : sendResult' = Err(m)
             /\ queue' = queue]_vars

\* C31 witness: the task has not even started its run routine, the queue is
\* filled up to the bound of the model and the last send returned Ok.
C31_Witness ==
    /\ tpc = "setup"
    /\ Len(queue[TaskChan]) = MaxQueue
    /\ sendResult = Ok("")


\* ===================================================================
\* A task that loops on recv until Stop, with one sender (SpecStop)
\* ===================================================================

\* the client sends the stop message through the handle after its other
\* messages, lifecycle.rs line 189
stop_send ==
    /\ hstate = "live"
    /\ chan_send(TaskChan, "Stop")
    /\ hstate' = "stopped"
    /\ UNCHANGED <<tpc, running, abortReq, startResult, reason, hookCalls,
                   hookArg, hookResult, hookSleeps, warning, output, hresult,
                   refs, calledIn>>
    /\ UNCHANGED xvars

\* and then calls join, lifecycle.rs line 192
stop_join ==
    /\ hstate = "stopped"
    /\ hstate' = "joining"
    /\ calledIn' = tpc
    /\ UNCHANGED mvars
    /\ UNCHANGED <<tpc, running, abortReq, startResult, reason, hookCalls,
                   hookArg, hookResult, hookSleeps, warning, output, hresult,
                   refs>>
    /\ UNCHANGED xvars

\* the steps of the task future, taken when the runtime polls it
StopTask ==
    \/ run
    \/ setup_lock
    \/ setup_store
    \/ start_recv
    \/ task_recv_take
    \/ task_recv_await
    \/ task_recv_relock
    \/ task_recv_put
    \/ receiver_match
    \/ determine_reason
    \/ hook_sleep
    \/ hook_wake
    \/ hook_return
    \/ finish

NextStop ==
    \/ StopTask
    \/ poll
    \/ yield
    \/ order_send(HandleSender)
    \/ stop_send
    \/ stop_join
    \/ join_return

SpecStop == Init /\ [][NextStop]_vars

\* the runtime keeps polling a task that can make progress; a poll starts
\* with a full budget, so that the task gets past at least one await point
\* per poll and a step of its own that is possible again and again is
\* eventually taken; the client, having sent Stop, calls join and is resumed
\* when the task has completed
SpecStopFair ==
    /\ SpecStop
    /\ WF_vars(poll)
    /\ SF_vars(StopTask)
    /\ WF_vars(stop_join)
    /\ WF_vars(join_return)

\* C32: once the stop message was sent, join returns; the task leaves its
\* loop only after the stop message was sent and exactly the messages sent
\* before it were processed, in order; the hook is invoked with Normal; and
\* what join returns is Ok(Normal).
C32_StopDrainsAndCompletes ==
    /\ (hstate = "stopped") ~> (hstate = "joined")
    /\ [](tpc \in {"caught", "hook", "hook_sleep", "hooked", "done"} =>
             /\ hstate /= "live"
             /\ received = [i \in 1..sent[HandleSender] |->
                               SenderValue(HandleSender, i - 1)]
             /\ result[TaskCaller] = Ok("Stop"))
    /\ [](hookCalls >= 1 => (hookCalls = 1 /\ hookArg = Normal))
    /\ [](hstate = "joined" => hresult = OkReason(Normal))

\* C32 witness: MaxPerSender messages and then Stop were sent, all of them
\* were processed, the hook ran (suspending once) and join has returned
\* Ok(Normal).
C32_Witness ==
    /\ hstate = "joined"
    /\ sent[HandleSender] = MaxPerSender
    /\ Len(received) = MaxPerSender
    /\ hookSleeps = 1
    /\ hresult = OkReason(Normal)


\* ===================================================================
\* Several tasks, each spawned with run() (SpecTwo)
\* ===================================================================

\* run, lines 114-117: the TaskState, and the Mailbox in it, is created per
\* call of run() and scoped to the spawned future, so that mailbox() inside
\* task t yields the mailbox of task t
MailboxOf_shared(t) == TaskChan
MailboxOf(t) == t

\* run, lines 111-124: a channel of its own for task t, one sender in the
\* TaskState, one in the returned handle
two_run(t) ==
    /\ senders[t] = 0
    /\ ~rxAlive[t]
    /\ ~bound[t]
    /\ senders' = [senders EXCEPT ![t] = 2]
    /\ rxAlive' = [rxAlive EXCEPT ![t] = TRUE]
    /\ UNCHANGED <<receiver, lockHolder, queue, bound, pc, held, val, arg,
                   result, binds, closedSeen, raced, sendResult>>
    /\ UNCHANGED <<tvars, xvars>>

\* __setup, lines 61-62: the receiver is stored in the mailbox the task sees
two_setup(t) ==
    /\ rxAlive[t]
    /\ ~bound[t]
    /\ bound' = [bound EXCEPT ![t] = TRUE]
    /\ mbox' = [mbox EXCEPT ![MailboxOf(t)] = SlotAfterSet(@, t)]
    /\ rxAlive' = DropRx(rxAlive, mbox[MailboxOf(t)])
    /\ queue' = DropQueue(queue, mbox[MailboxOf(t)])
    /\ UNCHANGED <<receiver, lockHolder, senders, pc, held, val, arg, result,
                   binds, closedSeen, raced, sendResult>>
    /\ UNCHANGED tvars
    /\ UNCHANGED <<sent, received, callPc, callResult, slot, replyTo, late>>

\* the handle of task t sends a message addressed to task t
two_send(t) ==
    /\ chan_send(t, RebindMsg(t))
    /\ UNCHANGED <<tvars, xvars>>

\* recv inside task t, lines 57-60 of mailbox.rs, on the mailbox it sees
two_take(t) ==
    /\ bound[t]
    /\ pc[t] = "idle"
    /\ IF mbox[MailboxOf(t)] = NoRx
       THEN /\ result' = [result EXCEPT ![t] = Err(EmptySlotError)]
            /\ UNCHANGED <<pc, held, mbox>>
       ELSE /\ held' = [held EXCEPT ![t] = mbox[MailboxOf(t)]]
            /\ mbox' = [mbox EXCEPT ![MailboxOf(t)] = NoRx]
            /\ pc' = [pc EXCEPT ![t] = "await"]
            /\ result' = result
    /\ UNCHANGED <<receiver, lockHolder, queue, senders, rxAlive, bound, val,
                   arg, binds, closedSeen, raced, sendResult>>
    /\ UNCHANGED tvars
    /\ UNCHANGED <<sent, received, callPc, callResult, slot, replyTo, late>>

\* recv inside task t, line 63: a message arrives and is taken off the
\* channel into the local `value` (the handle and the task's own sender stay
\* alive, so the channel is never closed); the future then awaits the lock
\* of line 66 and may be suspended there
two_await(t) ==
    /\ pc[t] = "await"
    /\ ChannelRecv(queue[held[t]], senders[held[t]]) = "msg"
    /\ val' = [val EXCEPT ![t] = Head(queue[held[t]])]
    /\ queue' = [queue EXCEPT ![held[t]] = Dequeue(@)]
    /\ pc' = [pc EXCEPT ![t] = "relock"]
    /\ UNCHANGED <<receiver, lockHolder, senders, rxAlive, bound, held, arg,
                   result, binds, closedSeen, raced, sendResult>>
    /\ UNCHANGED <<tvars, xvars>>

\* recv inside task t, lines 66-68: the lock of the task's mailbox (which no
\* one else uses) is taken, the endpoint put back and the message returned
two_put(t) ==
    /\ pc[t] = "relock"
    /\ result' = [result EXCEPT ![t] = Ok(val[t])]
    /\ val' = [val EXCEPT ![t] = ""]
    /\ queue' = DropQueue(queue, mbox[MailboxOf(t)])
    /\ rxAlive' = DropRx(rxAlive, mbox[MailboxOf(t)])
    /\ mbox' = [mbox EXCEPT ![MailboxOf(t)] = PutBack(held[t])]
    /\ held' = [held EXCEPT ![t] = NoRx]
    /\ pc' = [pc EXCEPT ![t] = "idle"]
    /\ UNCHANGED <<receiver, lockHolder, senders, bound, arg, binds,
                   closedSeen, raced, sendResult>>
    /\ UNCHANGED tvars
    /\ UNCHANGED <<sent, received, callPc, callResult, slot, replyTo, late>>

NextTwo ==
    \E t \in Chans :
        \/ two_run(t)
        \/ two_setup(t)
        \/ two_send(t)
        \/ two_take(t)
        \/ two_await(t)
        \/ two_put(t)

SpecTwo == Init /\ [][NextTwo]_vars

\* C33: the mailbox of task t holds the endpoint of channel t or nothing,
\* a recv of task t reads channel t and never fails, every message task t
\* has taken or received was addressed to t, and a message leaves the queue
\* of task t only by being taken by the recv of task t, which then returns
\* it to task t.
C33_SeparateMailboxes ==
    /\ [](\A t \in Chans :
             /\ mbox[t] \in {NoRx, t}
             /\ (pc[t] \in {"await", "relock"}) => (held[t] = t)
             /\ (pc[t] = "relock") => (val[t] = RebindMsg(t))
             /\ (result[t] /= NoResult) => (result[t] = Ok(RebindMsg(t)))
             /\ \A i \in 1..Len(queue[t]) : queue[t][i] = RebindMsg(t))
    /\ [][\A t \in Chans :
             /\ (queue'[t] /= queue[t]) =>
                   \/ queue'[t] = Append(queue[t], RebindMsg(t))
                   \/ /\ pc[t] = "await"
                      /\ queue[t] /= <<>>
                      /\ queue'[t] = Tail(queue[t])
                      /\ pc'[t] = "relock"
                      /\ val'[t] = Head(queue[t])
             /\ (pc[t] = "relock" /\ pc'[t] /= "relock") =>
                   /\ pc'[t] = "idle"
                   /\ result'[t] = Ok(val[t])
                   /\ mbox'[t] = t]_vars

\* C33 witness: both tasks run, each has received a message of its own
\* and each has further messages queued.
C33_Witness ==
    \A t \in Chans :
        /\ bound[t]
        /\ result[t] = Ok(RebindMsg(t))
        /\ Len(queue[t]) = MaxQueue


\* ===================================================================
\* A task that sends to itself through this() (SpecSelf)
\* ===================================================================

\* this, lines 127-129: the TaskRef wraps a clone of the sender in the
\* task-local TaskState, which run() cloned from the sender of the task's
\* own channel
ThisChannel_other == TaskChan + 1
ThisChannel == TaskChan

\* SelfReferencingTask::start, line 147: let my_ref = self.this()
self_this ==
    /\ tpc = "start"
    /\ running
    /\ refs = 0
    /\ sent[1] = 0
    /\ refs' = 1
    /\ senders' = [senders EXCEPT ![ThisChannel] = @ + 1]
    /\ UNCHANGED <<receiver, lockHolder, queue, rxAlive, bound, pc, held,
                   val, arg, result, binds, closedSeen, raced, sendResult>>
    /\ UNCHANGED <<tpc, running, abortReq, startResult, reason, hookCalls,
                   hookArg, hookResult, hookSleeps, warning, output, hstate,
                   hresult, calledIn>>
    /\ UNCHANGED xvars

\* line 148: my_ref.send(SelfMsg)
self_send ==
    /\ tpc = "start"
    /\ running
    /\ refs = 1
    /\ sent[1] = 0
    /\ chan_send(ThisChannel, "Self")
    /\ sent' = [sent EXCEPT ![1] = 1]
    /\ UNCHANGED tvars
    /\ UNCHANGED <<received, callPc, callResult, slot, replyTo, late, mbox>>

\* line 151: recv!(self)
self_recv ==
    /\ sent[1] = 1
    /\ start_recv

\* lines 151-154: the flag is stored and start() returns; my_ref is dropped
self_match ==
    /\ tpc = "matched"
    /\ running
    /\ startResult' = CatchOk
    /\ tpc' = "caught"
    /\ refs' = 0
    /\ senders' = [senders EXCEPT ![ThisChannel] = @ - 1]
    /\ UNCHANGED <<receiver, lockHolder, queue, rxAlive, bound, pc, held,
                   val, arg, result, binds, closedSeen, raced, sendResult>>
    /\ UNCHANGED <<running, abortReq, reason, hookCalls, hookArg, hookResult,
                   hookSleeps, warning, output, hstate, hresult, calledIn>>
    /\ UNCHANGED xvars

\* the message is queued before recv is called, so the recv never has to
\* wait for a message
NextSelf ==
    \/ run
    \/ poll
    \/ yield
    \/ setup_lock
    \/ setup_store
    \/ self_this
    \/ self_send
    \/ self_recv
    \/ task_recv_take
    \/ task_recv_await
    \/ task_recv_relock
    \/ task_recv_put
    \/ self_match
    \/ determine_reason
    \/ hook_return
    \/ finish
    \/ order_send(HandleSender)
    \/ join_call
    \/ join_return

SpecSelf == Init /\ [][NextSelf]_vars

\* C34 (as claimed): the message the task sends to this() is what the
\* task's own next recv returns.
C34_NextRecvReturnsSelf ==
    [][(tpc = "recv" /\ tpc' = "matched") =>
          (result'[TaskCaller] = Ok("Self"))]_vars

\* C34 (amended): the send through this() succeeds and appends the message
\* to the queue of the channel whose receive endpoint is in the task's own
\* mailbox, behind what is already queued there; that queue only grows at
\* its end until the task's recv takes its head (or the task ends); the
\* task's recv that follows reads that queue, with the message sent to
\* this() in it, and returns its head: the message sent to this() when no
\* one else has sent anything, and otherwise either that message or one a
\* client had queued.
C34_ThisAddressesOwnMailbox ==
    [][/\ (sent[1] = 0 /\ sent'[1] = 1) =>
             /\ sendResult' = Ok("")
             /\ queue'[TaskChan] = Append(queue[TaskChan], "Self")
             /\ receiver = TaskChan
       /\ (queue'[TaskChan] /= queue[TaskChan]) =>
             \/ /\ Len(queue'[TaskChan]) = Len(queue[TaskChan]) + 1
                /\ SubSeq(queue'[TaskChan], 1, Len(queue[TaskChan]))
                      = queue[TaskChan]
             \/ /\ tpc = "recv"
                /\ pc[TaskCaller] = "await"
                /\ queue'[TaskChan] = Tail(queue[TaskChan])
             \/ /\ tpc' = "done"
                /\ queue'[TaskChan] = <<>>
       /\ (tpc = "recv" /\ pc[TaskCaller] = "await"
              /\ pc'[TaskCaller] /= "await") =>
             /\ held[TaskCaller] = TaskChan
             /\ \E i \in 1..Len(queue[TaskChan]) : queue[TaskChan][i] = "Self"
             /\ val'[TaskCaller] = Head(queue[TaskChan])
       /\ (tpc = "recv" /\ tpc' = "matched") =>
             /\ result'[TaskCaller] = Ok(val[TaskCaller])
             /\ (sent[HandleSender] = 0) => (result'[TaskCaller] = Ok("Self"))
             /\ (result'[TaskCaller] /= Ok("Self")) =>
                   (\E i \in 0..(sent[HandleSender] - 1) :
                       result'[TaskCaller]
                         = Ok(Value(SenderValue(HandleSender, i))))]_vars

\* C34 witness: the task has completed after its recv returned the message
\* it had sent to this(), while a message of the client was queued behind
\* it, and join has returned.
C34_Witness ==
    /\ hstate = "joined"
    /\ sent[1] = 1
    /\ sent[HandleSender] >= 1
    /\ result[TaskCaller] = Ok("Self")


\* ===================================================================
\* Further claims about the task and its channel (checked under Spec)
\* ===================================================================

\* C35: while the task future exists the channel has a receiver and at
\* least one sender (the clone in the task-local TaskState); no recv inside
\* the task ever returns an error, so the match on a received value leaves
\* the loop only for the stop message; and a shutdown that returns while
\* start() has not finished returns ShutdownError::Timeout.
C35_OwnSenderKeepsChannelOpen ==
    /\ [](TaskLive => (senders[TaskChan] >= 1 /\ rxAlive[TaskChan]))
    /\ [](result[TaskCaller].tag /= "Err" /\ ~closedSeen)
    /\ [][(tpc = "matched" /\ tpc' = "caught")
             => result[TaskCaller] = Ok("Stop")]_vars
    /\ [][(hstate = "shutting" /\ hstate' = "shut" /\ startResult = NoCatch)
             => hresult' = ErrOutcome("Timeout")]_vars

\* C35 witness: nothing was ever sent, shutdown dropped the handle's sender
\* leaving the task's own as the only one, the task still waits in recv,
\* and shutdown has returned Timeout.
C35_Witness ==
    /\ hstate = "shut"
    /\ hresult = ErrOutcome("Timeout")
    /\ sendResult = NoResult
    /\ refs = 0
    /\ senders[TaskChan] = 1
    /\ tpc = "recv"
    /\ pc[TaskCaller] = "await"
    /\ startResult = NoCatch


\* ===================================================================
\* A Mailbox whose recv can be cancelled (SpecCancel)
\* ===================================================================

\* the future of recv is dropped (by an enclosing timeout or select) while it
\* is suspended at line 63 or at line 66: the local `receiver` is dropped
\* with it, and at line 66 the local `value`, the message already taken off
\* the channel, as well; the put-back never runs.  recv itself returns
\* nothing, which `result` records as Cancelled.  (Dropped at line 58, the
\* future holds nothing and the mailbox stays as it was.)
recv_cancel(p) ==
    /\ pc[p] \in {"await", "relock"}
    /\ rxAlive' = DropRx(rxAlive, held[p])
    /\ queue' = DropQueue(queue, held[p])
    /\ held' = [held EXCEPT ![p] = NoRx]
    /\ val' = [val EXCEPT ![p] = ""]
    /\ pc' = [pc EXCEPT ![p] = "idle"]
    /\ result' = [result EXCEPT ![p] = Err("Cancelled")]
    /\ UNCHANGED <<receiver, lockHolder, senders, bound, arg, binds,
                   closedSeen, raced, sendResult>>

MbRecvCancel == \E p \in Callers : recv_cancel(p) /\ UNCHANGED <<tvars, xvars>>

NextCancel == NextMailbox \/ MbRecvCancel

SpecCancel == InitMailbox /\ [][NextCancel]_vars

\* C36: a recv cancelled while suspended (waiting for a message, or with a
\* message taken and waiting to put the endpoint back) leaves the endpoint
\* lost, that is neither in the slot nor held by a recv, and dropped
\* (channel without receiver, buffer discarded, the taken message gone);
\* from then on the endpoint stays lost, every recv that reaches its take
\* step returns Poisoned, and no send succeeds or queues anything.
C36_CancelledRecvPoisons ==
    [][/\ \A p \in Callers :
             (pc[p] \in {"await", "relock"} /\ pc'[p] = "idle"
                 /\ result'[p] = Err("Cancelled")) =>
                 /\ binds' >= 1
                 /\ receiver' = NoRx
                 /\ \A q \in Callers : held'[q] = NoRx
                 /\ ~rxAlive'[held[p]]
                 /\ queue'[held[p]] = <<>>
                 /\ val'[p] = ""
       /\ (binds >= 1 /\ receiver = NoRx
              /\ \A q \in Callers : held[q] = NoRx) =>
             /\ binds' >= 1
             /\ receiver' = NoRx
             /\ \A q \in Callers : held'[q] = NoRx
             /\ ~rxAlive'[TaskChan]
             /\ queue'[TaskChan] = <<>>
             /\ \A p \in Callers :
                   (pc[p] = "take" /\ pc'[p] /= "take") =>
                       (pc'[p] = "idle" /\ result'[p] = Err("Poisoned"))
             /\ (sendResult' /= sendResult) => (sendResult'.tag = "Err")]_vars

\* C36 witness: no recv ever saw the channel closed or raced with another;
\* one recv was cancelled, a later recv has returned Poisoned and a later
\* send has failed.
C36_Witness ==
    /\ ~closedSeen
    /\ ~raced
    /\ result[1] = Err("Cancelled")
    /\ result[2] = Err("Poisoned")
    /\ sendResult.tag = "Err"


\* C37: from the moment start() has returned or panicked until the task
\* future completes, the receive endpoint sits in the mailbox and the
\* channel is open: a send in that window returns Ok and queues its message;
\* the task receives nothing any more (the hook of the model does not call
\* recv), so the queue only grows; and when the task ends the endpoint is
\* dropped with everything still queued.
C37_SendsDuringHook ==
    [][(Phase = "Completing") =>
          /\ rxAlive[TaskChan]
          /\ receiver = TaskChan
          /\ \A m \in Msgs :
                ((handle_send \/ ref_send) /\ chan_send(TaskChan, m)) =>
                    /\ sendResult' = Ok("")
                    /\ queue'[TaskChan] = Append(queue[TaskChan], m)
          /\ result' = result
          /\ val' = val
          /\ IF Phase' = "Completing"
             THEN Len(queue'[TaskChan]) >= Len(queue[TaskChan])
             ELSE /\ Phase' \in {"Terminated", "Aborted"}
                  /\ queue'[TaskChan] = <<>>
                  /\ ~rxAlive'[TaskChan]
                  /\ receiver' = NoRx]_vars

\* C37 witness: the loop was left on the stop message, the hook has been
\* suspended once and has returned, the task has not completed yet, and
\* messages whose send returned Ok fill the queue.
C37_Witness ==
    /\ tpc = "hooked"
    /\ hookSleeps = 1
    /\ result[TaskCaller] = Ok("Stop")
    /\ Len(queue[TaskChan]) = MaxQueue
    /\ sendResult = Ok("")


\* ===================================================================
\* Further claims about the Mailbox (checked under SpecRebind, SpecMailbox)
\* ===================================================================

\* C38: a recv suspended on its endpoint does not hold the lock, so a
\* set_receiver with another endpoint can start; and the restore step of a
\* recv that completes with a message stores the endpoint it had extracted
\* whatever the slot holds: an endpoint set in the meantime is dropped, its
\* channel has no receiver and loses what was buffered, and sends on that
\* channel fail from then on.
C38_RestoreOverwritesNewEndpoint ==
    [][/\ \A p \in Callers, ch \in Chans :
             (pc[p] = "await" /\ lockHolder = NoOne /\ rxAlive[ch] /\ ~bound[ch])
                => \A q \in Callers \ {p} :
                      (pc[q] = "idle") => ENABLED set_receiver_lock(q, ch)
       /\ \A p \in Callers :
             (pc[p] = "put" /\ pc'[p] = "idle") =>
                 /\ receiver' = held[p]
                 /\ result'[p] = Ok(val[p])
                 /\ (receiver /= NoRx) =>
                       /\ receiver /= held[p]
                       /\ ~rxAlive'[receiver]
                       /\ queue'[receiver] = <<>>
       /\ \A ch \in Chans :
             (~rxAlive[ch] /\ chan_send(ch, RebindMsg(ch))) =>
                 (sendResult' = Err(RebindMsg(ch)) /\ queue' = queue)]_vars

\* C38 witness: a recv that extracted the endpoint of channel 1 has its
\* message and holds the lock for the restore, while the slot holds the
\* endpoint of channel 2, set in the meantime, with messages buffered.
C38_Witness ==
    \E p \in Callers :
        /\ pc[p] = "put"
        /\ held[p] = TaskChan
        /\ receiver = 2
        /\ rxAlive[2]
        /\ queue[2] /= <<>>


\* C39: dropping a sender removes nothing from the queue; a recv holding the
\* endpoint of a non-empty queue can complete, with or without senders
\* left, and then takes the oldest message; and a recv returns Closed only
\* from a state in which the queue of its endpoint is empty and no sender
\* is left.
C39_ClosedAfterDrain ==
    [][/\ (senders' /= senders) => (queue' = queue)
       /\ \A p \in Callers :
             /\ (pc[p] = "await" /\ queue[held[p]] /= <<>>) =>
                   /\ ENABLED recv_await(p)
                   /\ (pc'[p] /= "await") =>
                         /\ pc'[p] = "relock"
                         /\ val'[p] = Head(queue[held[p]])
                         /\ queue'[held[p]] = Tail(queue[held[p]])
             /\ (pc[p] = "await" /\ result'[p] = Err("Closed")
                    /\ pc'[p] = "idle") =>
                   /\ queue[held[p]] = <<>>
                   /\ senders[held[p]] = 0
             /\ (pc[p] = "put" /\ pc'[p] = "idle") => result'[p] = Ok(val[p])]_vars

\* C39 witness: the last sender is gone, one caller has been returned a
\* message and the other, after it, Closed, with nothing left in the queue.
C39_Witness ==
    /\ senders[TaskChan] = 0
    /\ queue[TaskChan] = <<>>
    /\ ~raced
    /\ result[1].tag = "Ok"
    /\ result[2] = Err("Closed")


\* ===================================================================
\* A call whose request is never processed (checked under SpecCall)
\* ===================================================================

\* C40: when the task future completes or is aborted while the request of
\* a waiting call is still in the queue, the queue is discarded with the
\* receive endpoint and with it the reply sender of that call; from then on
\* the call, if no reply had been stored, cannot time out, its return is
\* enabled, and it returns ChannelClosed.
C40_QueuedRequestDropped ==
    [][\A c \in Calls :
          /\ ( /\ callPc[c] = "waiting"
               /\ \E i \in DOMAIN queue[TaskChan] :
                     queue[TaskChan][i] = Request(c)
               /\ ~Terminated
               /\ Terminated' )
             => /\ queue'[TaskChan] = <<>>
                /\ ~rxAlive'[TaskChan]
                /\ slot'[c] = NoVal
                /\ callPc'[c] = "waiting"
                /\ ~TxAlive(c)'
          /\ (callPc[c] = "waiting" /\ Terminated /\ slot[c] = NoVal)
             => /\ ENABLED call_recv(c)
                /\ ~ENABLED call_timeout(c)
                /\ (callPc'[c] /= "waiting") =>
                      (callResult'[c] = Err("ChannelClosed"))]_vars

\* C40 witness: the task was killed before it had received anything, so the
\* request of the call was still queued, and the call has returned
\* ChannelClosed.
C40_Witness ==
    /\ tpc = "aborted"
    /\ result[TaskCaller] = NoResult
    /\ \E c \in Calls :
          callPc[c] = "returned" /\ callResult[c] = Err("ChannelClosed")

====
